---------------------------- MODULE Spec2Model ----------------------------
(***************************************************************************)
(* State-machine model of the single-pair trading loop: startup and live   *)
(* reconciliation (main.cpp), the decision engine Strategy::evaluate and   *)
(* the execution path Strategy::execute with its fill polling (Strategy    *)
(* code held in util.cpp), TradingState (state.cpp) and the failure        *)
(* counter of the exchange client (KrakenClient code held in               *)
(* strategy.cpp).                                                          *)
(*                                                                         *)
(* Number representation.  The program computes in double; the model       *)
(* computes in integers.  Percentages are integers out of Scale, so the    *)
(* double 0.10 is 10.  Prices are integers.  A comparison of two products  *)
(* is cross-multiplied so that it is exact (price >= entry * (1 + tp))     *)
(* becomes price * Scale >= entry * (Scale + tp)).  A stored product       *)
(* (trailing_stop_price) is stored multiplied by Scale.  A quotient that   *)
(* is stored (position size, base amount) is truncated.  An optional field *)
(* is << >> (std::nullopt) or <<v>>.                                       *)
(***************************************************************************)
EXTENDS Integers, Sequences, FiniteSets, TLC

(* ------------------------------ bounds -------------------------------- *)

\* The clock (epoch seconds) runs from 0 to MaxTime.
MaxTime == 3

\* Seconds per calendar day on the model's clock.
DayLen == 3

\* Orders the exchange accepts in one run.
MaxOrders == 2

\* Attempt budget of wait_for_fill (the default argument is 10; the model
\* runs the same loop with a shorter budget).
MaxAttempts == 2

\* The client's clock, in ticks, stops at MaxClock.
MaxClock == 6

Scale == 10 * 10

\* Ticker prices the exchange may report.
Prices == {9, 10, 11}

(* ------------------------------ helpers ------------------------------- *)

Null == << >>

Some(v) == <<v>>

HasValue(o) == o # << >>

Value(o) == o[1]

Min2(a, b) == IF a <= b THEN a ELSE b

Max2(a, b) == IF a >= b THEN a ELSE b

Abs(x) == IF x < 0 THEN -x ELSE x

RECURSIVE SumSeq(_)
SumSeq(s) == IF s = << >> THEN 0 ELSE Head(s) + SumSeq(Tail(s))

\* util::today_yyyy_mm_dd: the calendar date of the clock value t.
Today(t) == t \div DayLen

(* --------------------------- configuration ---------------------------- *)

\* struct Config with the fields the trading loop reads.  Every value lies
\* in the range Config::validate accepts.  Three feature profiles:
\*   "basic": fixed take-profit / stop-loss only;
\*   "trail": fixed levels, trailing stop, cooldown, partial take-profit;
\*   "full":  ATR-based levels, every exit rule and every entry filter.
MkConfig(dry, profile) ==
    [ dry_run                  |-> dry,
      take_profit_pct          |-> 10,
      stop_loss_pct            |-> 10,
      rebuy_reset_pct          |-> 10,
      trend_window_short       |-> 1,
      trend_window_long        |-> 2,
      require_trend_up         |-> (profile = "full"),
      atr_window               |-> 1,
      min_atr_pct              |-> IF profile = "full" THEN 5 ELSE 0,
      max_spread_pct           |-> 1,
      risk_per_trade_pct       |-> 4,
      max_position_pct         |-> 90,
      min_cad_required_pct     |-> 2,
      partial_tp_pct           |-> IF profile = "basic" THEN 0 ELSE 5,
      partial_tp_sell_pct      |-> 50,
      trailing_stop_pct        |-> IF profile = "basic" THEN 0 ELSE 10,
      max_hold_seconds         |-> IF profile = "full" THEN 2 ELSE 0,
      use_dynamic_tp_sl        |-> (profile = "full"),
      tp_atr_mult              |-> 2,
      sl_atr_mult              |-> 1,
      cooldown_seconds         |-> CASE profile = "basic" -> 0
                                     [] profile = "trail" -> 1
                                     [] OTHER -> 2,
      max_trades_per_day       |-> 2,
      sim_fee_pct_roundtrip    |-> 1,
      sim_initial_cad          |-> 1000,
      max_consecutive_failures |-> 2 ]

Profiles == {"basic", "trail", "full"}

\* The profiles run against the live exchange.
LiveProfiles == {"basic", "full"}

Configs ==
    { MkConfig(TRUE, p) : p \in Profiles } \cup { MkConfig(FALSE, p) : p \in LiveProfiles }

(* ------------------------------- state -------------------------------- *)

VARIABLES
    cfg,        \* Config, fixed at startup
    st,         \* TradingState held by main and referenced by Strategy
    file,       \* contents of the state file (the persisted record)
    now,        \* the wall clock, epoch seconds
    pc,         \* position of the main thread
    ctx,        \* TradeContext returned by the last evaluate()
    hist,       \* Strategy::price_history_ and Strategy::tr_history_
    failures,   \* KrakenClient::consecutive_failures_
    exch,       \* the exchange account and the order being confirmed
    ghost,      \* history: pre-call snapshot, outcome of execute(), reconciliation
    client,     \* KrakenClient's rate limiter and backoff, and its callers
    env         \* outside the process: signals, kill-switch file, wall clock

vars == <<cfg, st, file, now, pc, ctx, hist, failures, exch, ghost, client, env>>

\* TradingState::default_state at date d.
default_state(d) ==
    [ mode                     |-> "FLAT",
      entry_price              |-> Null,
      exit_price               |-> Null,
      trailing_stop_price      |-> Null,
      btc_amount               |-> 0,
      last_trade_time          |-> Null,
      entry_time               |-> Null,
      trades_today             |-> 0,
      trades_date_yyyy_mm_dd   |-> d,
      partial_take_profit_done |-> FALSE,
      sim_cad_balance          |-> 0,
      sim_btc_balance          |-> 0 ]

\* TradingState::save: the record written to the state file.  Nine fields
\* are written; trailing_stop_price, entry_time and
\* partial_take_profit_done are not.
save(s) ==
    [ mode                   |-> s.mode,
      entry_price            |-> s.entry_price,
      exit_price             |-> s.exit_price,
      btc_amount             |-> s.btc_amount,
      last_trade_time        |-> s.last_trade_time,
      trades_today           |-> s.trades_today,
      trades_date_yyyy_mm_dd |-> s.trades_date_yyyy_mm_dd,
      sim_cad_balance        |-> s.sim_cad_balance,
      sim_btc_balance        |-> s.sim_btc_balance ]

\* No state file on disk.
NoFile == [ absent |-> TRUE ]

\* A date rollover that would also forget the last trade.
RolloverForgettingLastTrade(s, t) ==
    IF s.trades_date_yyyy_mm_dd # Today(t)
    THEN [s EXCEPT !.trades_today = 0, !.trades_date_yyyy_mm_dd = Today(t),
                   !.last_trade_time = Null]
    ELSE s

\* TradingState::check_date_rollover at clock value t.
check_date_rollover(s, t) ==
    IF s.trades_date_yyyy_mm_dd # Today(t)
    THEN [s EXCEPT !.trades_today = 0, !.trades_date_yyyy_mm_dd = Today(t)]
    ELSE s

\* A cooldown test that would never hold.
NeverInCooldown(s, cooldown_seconds, t) == FALSE

\* TradingState::is_in_cooldown at clock value t.
is_in_cooldown(s, cooldown_seconds, t) ==
    IF ~HasValue(s.last_trade_time) THEN FALSE
    ELSE (t - Value(s.last_trade_time)) < cooldown_seconds

\* TradingState::cooldown_remaining at clock value t.
cooldown_remaining(s, cooldown_seconds, t) ==
    IF ~HasValue(s.last_trade_time) THEN 0
    ELSE LET remaining == cooldown_seconds - (t - Value(s.last_trade_time))
         IN  IF remaining > 0 THEN remaining ELSE 0

(* -------------------------- exchange client --------------------------- *)

\* Outcome of one HTTP request as the client classifies it: "ok"; "http_fail"
\* (transport error or non-200 status: http_get / http_post call
\* apply_backoff and return ""); "api_error" (status 200, so http_get /
\* http_post reset the counter, then the typed operation finds an error
\* array, a missing result or malformed JSON and calls apply_backoff).
CallOutcomes == {"ok", "http_fail", "api_error"}

\* A counter that a successful request would leave as it is.
AfterCallWithoutReset(f, o) ==
    CASE o = "ok"        -> f
      [] o = "http_fail" -> f + 1
      [] o = "api_error" -> f + 1

\* KrakenClient::consecutive_failures_ after one request with outcome o.
AfterCall(f, o) ==
    CASE o = "ok"        -> 0
      [] o = "http_fail" -> f + 1
      [] o = "api_error" -> 0 + 1

\* consecutive_failures_ after one query_order with result q: a request
\* outcome that carries no order, "not_found" (the result lacks the txid:
\* error text, no backoff) or the order's status.
AfterQuery(f, q) ==
    CASE q = "http_fail" -> f + 1
      [] q = "api_error" -> 0 + 1
      [] OTHER           -> 0

(* ----------------------------- indicators ----------------------------- *)

\* Keep the newest n entries of s (push_back followed by pop_front while
\* the deque is over capacity).
Newest(s, n) ==
    IF Len(s) > n THEN SubSeq(s, Len(s) - n + 1, Len(s)) ELSE s

\* Windows that would grow with every sample and evict nothing.
UpdateWithoutEviction(c, h, price) ==
    IF price <= 0 THEN h
    ELSE [ price_history |-> Append(h.price_history, price),
           tr_history |->
               IF h.price_history # << >>
               THEN Append(h.tr_history,
                           Abs(price - h.price_history[Len(h.price_history)]))
               ELSE h.tr_history ]

\* Strategy::update_indicators: the two rolling windows after sample price.
update_indicators(c, h, price) ==
    IF price <= 0 THEN h
    ELSE [ price_history |->
               LET pushed == Append(h.price_history, price)
               IN  IF Len(pushed) > c.trend_window_long THEN Tail(pushed) ELSE pushed,
           tr_history |->
               IF h.price_history # << >>
               THEN LET tr == Abs(price - h.price_history[Len(h.price_history)])
                        pushed == Append(h.tr_history, tr)
                    IN  IF Len(pushed) > c.atr_window THEN Tail(pushed) ELSE pushed
               ELSE h.tr_history ]

\* ctx.atr as the fraction sum / n (0 / 1 when it is left at 0.0).
Atr(c, h) ==
    IF c.atr_window > 0 /\ h.tr_history # << >>
    THEN [sum |-> SumSeq(h.tr_history), n |-> Len(h.tr_history)]
    ELSE [sum |-> 0, n |-> 1]

\* ctx.sma_short and ctx.sma_long as fractions; avail is FALSE while both
\* are left at 0.0 (the long window is not full yet).
Sma(c, h) ==
    LET ph == h.price_history
    IN  IF c.trend_window_short > 0 /\ c.trend_window_long > 0
           /\ Len(ph) >= c.trend_window_long
        THEN [ avail     |-> TRUE,
               long_sum  |-> SumSeq(Newest(ph, c.trend_window_long)),
               long_n    |-> c.trend_window_long,
               short_sum |-> SumSeq(Newest(ph, c.trend_window_short)),
               short_n   |-> c.trend_window_short ]
        ELSE [ avail |-> FALSE, long_sum |-> 0, long_n |-> 1,
               short_sum |-> 0, short_n |-> 1 ]

\* Strategy::passes_trend_filter (prices are positive, so an available
\* average is positive).
passes_trend_filter(c, h) ==
    IF ~c.require_trend_up THEN TRUE
    ELSE LET m == Sma(c, h)
         IN  IF ~m.avail \/ m.short_sum <= 0 \/ m.long_sum <= 0 THEN FALSE
             ELSE m.short_sum * m.long_n >= m.long_sum * m.short_n

\* Strategy::passes_volatility_filter.
passes_volatility_filter(c, h, price) ==
    IF c.min_atr_pct <= 0 \/ price <= 0 THEN TRUE
    ELSE LET a == Atr(c, h)
         IN  IF a.sum <= 0 THEN FALSE
             ELSE a.sum * Scale >= c.min_atr_pct * price * a.n

\* ctx.spread_pct > max_spread_pct, from ctx.bid_price and ctx.ask_price.
\* KrakenClient::get_ticker assigns last_price and timestamp only, so bid
\* and ask reach update_indicators as 0.0 and spread_pct stays 0.0.
SpreadTooWide(c, bid, ask) ==
    /\ c.max_spread_pct > 0
    /\ bid > 0 /\ ask > 0 /\ ask >= bid
    /\ (ask - bid) * 2 * Scale > c.max_spread_pct * (bid + ask)

(* --------------------------- position sizing -------------------------- *)

\* A sizing that would not cap the position at max_position_pct.
SizingUncapped(c, avail, base, price) ==
    LET equity == avail + (base * price) \div Scale
        risk   == (equity * c.risk_per_trade_pct) \div Scale
        raw    == IF c.stop_loss_pct > 0
                  THEN (risk * Scale) \div c.stop_loss_pct ELSE 0
        maxpos == (equity * c.max_position_pct) \div Scale
    IN  [ equity_cad |-> equity, available_cad |-> avail, fee_buffer_cad |-> 1,
          risk_cad |-> risk, raw_position_cad |-> raw, max_position_cad |-> maxpos,
          position_cad |-> raw, btc_to_buy |-> 0,
          can_trade |-> raw >= 1, block_reason |-> "" ]

\* A sizing that would divide by the stop-loss percentage unguarded, a
\* zero percentage taken as the smallest positive one.
SizingUnguarded(c, avail, base, price) ==
    LET equity == avail + (base * price) \div Scale
        risk   == (equity * c.risk_per_trade_pct) \div Scale
        raw    == (risk * Scale) \div Max2(1, c.stop_loss_pct)
        maxpos == (equity * c.max_position_pct) \div Scale
        position == Min2(raw, maxpos)
    IN  [ equity_cad |-> equity, available_cad |-> avail, fee_buffer_cad |-> 1,
          risk_cad |-> risk, raw_position_cad |-> raw, max_position_cad |-> maxpos,
          position_cad |-> position, btc_to_buy |-> 0,
          can_trade |-> position >= 1, block_reason |-> "" ]

\* Strategy::calculate_sizing once the balances are known: avail and
\* base are the free quote balance and the base amount entering equity.
\* Base amounts are counted in 1/Scale of a unit.
SizingFrom(c, avail, base, price) ==
    LET equity   == avail + (base * price) \div Scale
        buffer   == Max2(1, (equity * c.min_cad_required_pct) \div Scale)
        risk     == (equity * c.risk_per_trade_pct) \div Scale
        raw      == IF c.stop_loss_pct > 0
                    THEN (risk * Scale) \div c.stop_loss_pct ELSE 0
        maxpos   == (equity * c.max_position_pct) \div Scale
        position == Min2(raw, maxpos)
    IN  [ equity_cad       |-> equity,
          available_cad    |-> avail,
          fee_buffer_cad   |-> buffer,
          risk_cad         |-> risk,
          raw_position_cad |-> raw,
          max_position_cad |-> maxpos,
          position_cad     |-> position,
          btc_to_buy       |-> IF price > 0 THEN (position * Scale) \div price ELSE 0,
          can_trade        |-> ~(avail < position + buffer) /\ ~(position < 1),
          block_reason     |-> IF avail < position + buffer THEN "insufficient_cad"
                               ELSE IF position < 1 THEN "position_too_small"
                               ELSE "" ]

\* PositionSizing as default-constructed, with the block reason of a
\* failed balance fetch.
SizingBalanceFailed ==
    [ equity_cad |-> 0, available_cad |-> 0, fee_buffer_cad |-> 0,
      risk_cad |-> 0, raw_position_cad |-> 0, max_position_cad |-> 0,
      position_cad |-> 0, btc_to_buy |-> 0, can_trade |-> FALSE,
      block_reason |-> "balance_fetch_failed" ]

\* Strategy::calculate_sizing.  bal is the outcome of get_balance (live
\* mode only) and acct the account it reads.
calculate_sizing(c, s, price, bal, acct) ==
    IF c.dry_run
    THEN IF s.mode = "FLAT"
         THEN SizingFrom(c, s.sim_cad_balance, 0, price)
         ELSE SizingFrom(c, s.sim_cad_balance, s.sim_btc_balance, price)
    ELSE IF bal # "ok" THEN SizingBalanceFailed
         ELSE SizingFrom(c, acct.cad, acct.btc, price)

(* --------------------------- decision engine -------------------------- *)

\* PositionSizing as default-constructed.
DefaultSizing ==
    [ equity_cad |-> 0, available_cad |-> 0, fee_buffer_cad |-> 0,
      risk_cad |-> 0, raw_position_cad |-> 0, max_position_cad |-> 0,
      position_cad |-> 0, btc_to_buy |-> 0, can_trade |-> FALSE,
      block_reason |-> "" ]

\* TradeContext as default-constructed.  decision_reason is the kind of
\* the reason text; cooldown_remaining is the number printed in it.
EmptyCtx ==
    [ current_price      |-> 0,
      price_stale        |-> FALSE,
      fetched            |-> FALSE,
      sizing             |-> DefaultSizing,
      decision           |-> "NOOP",
      decision_reason    |-> "",
      cooldown_remaining |-> 0,
      sell_volume        |-> 0,
      is_partial_exit    |-> FALSE ]

\* Blocking conditions whose daily cap would block only above the cap
\* (> where the code has >=).
BlockingAboveCap(c, s, f, t) ==
    IF is_in_cooldown(s, c.cooldown_seconds, t) THEN "cooldown"
    ELSE IF s.trades_today > c.max_trades_per_day THEN "max_trades"
    ELSE IF f >= c.max_consecutive_failures THEN "api_failures"
    ELSE ""

\* Strategy::check_blocking_conditions: the first blocking condition that
\* holds, "" when none does.  f is client_.get_consecutive_failures().
check_blocking_conditions(c, s, f, t) ==
    IF is_in_cooldown(s, c.cooldown_seconds, t) THEN "cooldown"
    ELSE IF s.trades_today >= c.max_trades_per_day THEN "max_trades"
    ELSE IF f >= c.max_consecutive_failures THEN "api_failures"
    ELSE ""

\* Strategy::check_market_conditions: the first filter that blocks, ""
\* when none does.
check_market_conditions(c, h, price) ==
    IF SpreadTooWide(c, 0, 0) THEN "spread_too_wide"
    ELSE IF ~passes_volatility_filter(c, h, price) THEN "volatility_too_low"
    ELSE IF ~passes_trend_filter(c, h) THEN "trend_filter"
    ELSE ""

\* An entry condition that would hold whatever the price.
AlwaysEnter(c, s, price) == [enter |-> TRUE, reason |-> "first_trade"]

\* An entry condition that would never hold.
NeverEnter(c, s, price) == [enter |-> FALSE, reason |-> "waiting_for_reset"]

\* Strategy::check_entry_condition.
check_entry_condition(c, s, price) ==
    IF ~HasValue(s.exit_price)
    THEN [enter |-> TRUE, reason |-> "first_trade"]
    ELSE IF price * Scale <= Value(s.exit_price) * (Scale - c.rebuy_reset_pct)
         THEN [enter |-> TRUE, reason |-> "price_reset"]
         ELSE [enter |-> FALSE, reason |-> "waiting_for_reset"]

\* A take-profit test that would never hold.
TakeProfitNever(c, entry, price, a) == FALSE

\* current_price >= ctx.tp_price, with tp_price as check_exit_condition
\* sets it (ATR-based when use_dynamic_tp_sl and atr > 0, else fixed).
TakeProfitReached(c, entry, price, a) ==
    IF c.use_dynamic_tp_sl /\ a.sum > 0
    THEN price * a.n >= entry * a.n + a.sum * c.tp_atr_mult
    ELSE price * Scale >= entry * (Scale + c.take_profit_pct)

\* A stop-loss test that would never hold.
StopLossNever(c, entry, price, a) == FALSE

\* current_price <= ctx.sl_price.
StopLossReached(c, entry, price, a) ==
    IF c.use_dynamic_tp_sl /\ a.sum > 0
    THEN price * a.n <= entry * a.n - a.sum * c.sl_atr_mult
    ELSE price * Scale <= entry * (Scale - c.stop_loss_pct)

\* A trailing stop that would follow the price down as well as up.
FollowPrice(c, s, price) == Some(price * (Scale - c.trailing_stop_pct))

\* The trailing-stop ratchet of check_exit_condition: the stored stop after
\* a sample at price (stored multiplied by Scale).
RatchetTrailingStop(c, s, price) ==
    LET trailing_base == price * (Scale - c.trailing_stop_pct)
    IN  IF ~HasValue(s.trailing_stop_price) THEN Some(trailing_base)
        ELSE IF trailing_base > Value(s.trailing_stop_price) THEN Some(trailing_base)
        ELSE s.trailing_stop_price

\* An exit check that would close the position without looking at the
\* entry price.
ExitWithoutEntry(c, s, h, price, t) ==
    [ exit |-> TRUE, reason |-> "stop_loss", st |-> s,
      is_partial_exit |-> FALSE,
      sell_volume |-> IF c.dry_run THEN s.sim_btc_balance ELSE s.btc_amount ]

\* An exit check that would know the take-profit and the stop-loss only.
ExitByLevelsOnly(c, s, h, price, t) ==
    LET no == [exit |-> FALSE, reason |-> "", st |-> s,
               is_partial_exit |-> FALSE, sell_volume |-> 0]
    IN  IF ~HasValue(s.entry_price)
        THEN [no EXCEPT !.reason = "missing_entry_price"]
        ELSE IF TakeProfitReached(c, Value(s.entry_price), price, Atr(c, h))
        THEN [no EXCEPT !.exit = TRUE, !.reason = "take_profit"]
        ELSE IF StopLossReached(c, Value(s.entry_price), price, Atr(c, h))
        THEN [no EXCEPT !.exit = TRUE, !.reason = "stop_loss"]
        ELSE [no EXCEPT !.reason = "holding"]

\* Strategy::check_exit_condition: whether to sell, why, the sell volume
\* and partial flag left in ctx, and the TradingState it leaves.
check_exit_condition(c, s, h, price, t) ==
    LET no == [exit |-> FALSE, reason |-> "", st |-> s,
               is_partial_exit |-> FALSE, sell_volume |-> 0]
    IN
    IF ~HasValue(s.entry_price)
    THEN [no EXCEPT !.reason = "missing_entry_price"]
    ELSE
    LET entry == Value(s.entry_price)
        a     == Atr(c, h)
        current_btc == IF c.dry_run THEN s.sim_btc_balance ELSE s.btc_amount
    IN
    IF /\ ~s.partial_take_profit_done
       /\ c.partial_tp_pct > 0
       /\ price * Scale >= entry * (Scale + c.partial_tp_pct)
    THEN [ exit |-> TRUE, reason |-> "partial_take_profit", st |-> s,
           is_partial_exit |-> TRUE,
           sell_volume |-> (current_btc * c.partial_tp_sell_pct) \div Scale ]
    ELSE
    LET s1 == IF c.trailing_stop_pct > 0
              THEN [s EXCEPT !.trailing_stop_price = RatchetTrailingStop(c, s, price)]
              ELSE s
        yes(r) == [no EXCEPT !.exit = TRUE, !.reason = r, !.st = s1]
    IN
    IF c.trailing_stop_pct > 0 /\ price * Scale <= Value(s1.trailing_stop_price)
    THEN yes("trailing_stop")
    ELSE IF /\ c.max_hold_seconds > 0
            /\ HasValue(s1.entry_time)
            /\ (t - Value(s1.entry_time)) >= c.max_hold_seconds
    THEN yes("time_exit")
    ELSE IF TakeProfitReached(c, entry, price, a) THEN yes("take_profit")
    ELSE IF StopLossReached(c, entry, price, a) THEN yes("stop_loss")
    ELSE [no EXCEPT !.reason = "holding", !.st = s1]

\* The FLAT branch of Strategy::evaluate: sizing, market filters, entry
\* condition.  Gives the TradeContext, the TradingState and the failure
\* counter.
EvaluateFlat(c, s, h, f, t, price, bal, acct, base) ==
    LET sz == calculate_sizing(c, s, price, bal, acct)
        f2 == IF c.dry_run THEN f ELSE AfterCall(f, bal)
        b1 == [base EXCEPT !.sizing = sz]
        m  == check_market_conditions(c, h, price)
        e  == check_entry_condition(c, s, price)
    IN  IF ~sz.can_trade
        THEN [ st |-> s, failures |-> f2,
               ctx |-> [b1 EXCEPT !.decision = "BLOCKED",
                                  !.decision_reason = sz.block_reason] ]
        ELSE IF m # ""
        THEN [ st |-> s, failures |-> f2,
               ctx |-> [b1 EXCEPT !.decision = "BLOCKED", !.decision_reason = m] ]
        ELSE [ st |-> s, failures |-> f2,
               ctx |-> [b1 EXCEPT !.decision = IF e.enter THEN "BUY" ELSE "NOOP",
                                  !.decision_reason = e.reason] ]

\* The LONG branch of Strategy::evaluate: the exit conditions.
EvaluateLong(c, s, h, f, t, price, bal, acct, base) ==
    LET x == check_exit_condition(c, s, h, price, t)
    IN  [ st |-> x.st, failures |-> f,
          ctx |-> [base EXCEPT !.decision = IF x.exit THEN "SELL" ELSE "NOOP",
                               !.decision_reason = x.reason,
                               !.is_partial_exit = x.is_partial_exit,
                               !.sell_volume = x.sell_volume] ]

\* An evaluate that would take the entry branch whatever the mode.
EvaluateAsFlat(c, s, h, f, t, price, bal, acct, base) ==
    EvaluateFlat(c, s, h, f, t, price, bal, acct, base)

\* The mode-specific half of Strategy::evaluate, after the price fetch
\* succeeded and no blocking condition held.
EvaluateMode(c, s, h, f, t, price, bal, acct, base) ==
    IF s.mode = "FLAT"
    THEN EvaluateFlat(c, s, h, f, t, price, bal, acct, base)
    ELSE EvaluateLong(c, s, h, f, t, price, bal, acct, base)

\* What the price fetch of one cycle can give: get_ticker succeeds with a
\* fresh price ("ok"), succeeds with a price older than stale_price_seconds
\* ("stale"), or fails.
FetchOutcomes == {"ok", "stale", "http_fail", "api_error"}

\* Strategy::evaluate at clock value t: the TradeContext it returns, and
\* the TradingState, price windows and failure counter it leaves.
evaluate(c, s0, h, f, t, fetch, price, bal, acct) ==
    LET s == check_date_rollover(s0, t)
    IN
    IF fetch \in {"http_fail", "api_error"}
    THEN [ st |-> s, hist |-> h, failures |-> AfterCall(f, fetch),
           ctx |-> [EmptyCtx EXCEPT !.decision = "BLOCKED",
                                    !.decision_reason = "price_fetch_failed"] ]
    ELSE IF fetch = "stale"
    THEN [ st |-> s, hist |-> h, failures |-> AfterCall(f, "ok"),
           ctx |-> [EmptyCtx EXCEPT !.current_price = price,
                                    !.price_stale = TRUE,
                                    !.decision = "BLOCKED",
                                    !.decision_reason = "price_stale"] ]
    ELSE
    LET h1   == update_indicators(c, h, price)
        base == [EmptyCtx EXCEPT !.current_price = price, !.fetched = TRUE]
        f1   == AfterCall(f, "ok")
        b    == check_blocking_conditions(c, s, f1, t)
    IN
    IF b # ""
    THEN [ st |-> s, hist |-> h1, failures |-> f1,
           ctx |-> [base EXCEPT !.decision = "BLOCKED",
                                !.decision_reason = b,
                                !.cooldown_remaining =
                                    IF b = "cooldown"
                                    THEN cooldown_remaining(s, c.cooldown_seconds, t)
                                    ELSE 0] ]
    ELSE LET r == EvaluateMode(c, s, h1, f1, t, price, bal, acct, base)
         IN  [ st |-> r.st, hist |-> h1, failures |-> r.failures, ctx |-> r.ctx ]

(* ------------------------------ execution ----------------------------- *)

\* The trailing stop a buy fill at price stores.
InitialTrailingStop(c, price) ==
    IF c.trailing_stop_pct > 0 THEN Some(price * (Scale - c.trailing_stop_pct))
    ELSE Null

\* A simulated buy that would charge the fee on the way in as well.
SimulateBuyWithFee(c, s, btc_amount, price, t) ==
    LET cost_cad == (btc_amount * price) \div Scale
        fee      == (cost_cad * c.sim_fee_pct_roundtrip + Scale - 1) \div Scale
    IN  [s EXCEPT !.sim_cad_balance = s.sim_cad_balance - cost_cad - fee,
                  !.sim_btc_balance = btc_amount,
                  !.entry_price = Some(price),
                  !.btc_amount = btc_amount,
                  !.mode = "LONG",
                  !.trades_today = s.trades_today + 1,
                  !.last_trade_time = Some(t),
                  !.entry_time = Some(t),
                  !.partial_take_profit_done = FALSE,
                  !.trailing_stop_price = InitialTrailingStop(c, price)]

\* Strategy::simulate_fill, side "buy", before the save.
simulate_buy(c, s, btc_amount, price, t) ==
    LET cost_cad == (btc_amount * price) \div Scale
    IN  [s EXCEPT !.sim_cad_balance = s.sim_cad_balance - cost_cad,
                  !.sim_btc_balance = btc_amount,
                  !.entry_price = Some(price),
                  !.btc_amount = btc_amount,
                  !.mode = "LONG",
                  !.trades_today = s.trades_today + 1,
                  !.last_trade_time = Some(t),
                  !.entry_time = Some(t),
                  !.partial_take_profit_done = FALSE,
                  !.trailing_stop_price = InitialTrailingStop(c, price)]

\* A simulated sell that would charge no fee.
SimulateSellWithoutFee(c, s, btc_amount, price, t) ==
    LET gross == (btc_amount * price) \div Scale
        left  == Max2(0, s.btc_amount - btc_amount)
        s1    == [s EXCEPT !.sim_cad_balance = s.sim_cad_balance + gross,
                           !.sim_btc_balance = Max2(0, s.sim_btc_balance - btc_amount),
                           !.exit_price = Some(price),
                           !.btc_amount = left,
                           !.trades_today = s.trades_today + 1,
                           !.last_trade_time = Some(t)]
    IN  IF left > 0
        THEN [s1 EXCEPT !.partial_take_profit_done = TRUE]
        ELSE [s1 EXCEPT !.mode = "FLAT",
                        !.entry_time = Null,
                        !.trailing_stop_price = Null]

\* Strategy::simulate_fill, side "sell", before the save.
simulate_sell(c, s, btc_amount, price, t) ==
    LET gross == (btc_amount * price) \div Scale
        fee   == (gross * c.sim_fee_pct_roundtrip) \div Scale
        left  == Max2(0, s.btc_amount - btc_amount)
        s1    == [s EXCEPT !.sim_cad_balance = s.sim_cad_balance + (gross - fee),
                           !.sim_btc_balance = Max2(0, s.sim_btc_balance - btc_amount),
                           !.exit_price = Some(price),
                           !.btc_amount = left,
                           !.trades_today = s.trades_today + 1,
                           !.last_trade_time = Some(t)]
    IN  IF left > 0
        THEN [s1 EXCEPT !.partial_take_profit_done = TRUE]
        ELSE [s1 EXCEPT !.mode = "FLAT",
                        !.entry_time = Null,
                        !.trailing_stop_price = Null]

\* The state update of Strategy::execute_buy after a confirmed fill.
buy_filled(c, s, volume, avg_price, t) ==
    [s EXCEPT !.entry_price = Some(avg_price),
              !.btc_amount = volume,
              !.mode = "LONG",
              !.trades_today = s.trades_today + 1,
              !.last_trade_time = Some(t),
              !.entry_time = Some(t),
              !.partial_take_profit_done = FALSE,
              !.trailing_stop_price = InitialTrailingStop(c, avg_price)]

\* A sell update that would leave partial_take_profit_done as it is.
SellFilledUnmarked(s, is_partial_exit, volume, avg_price, t) ==
    LET left == Max2(0, s.btc_amount - volume)
        s1   == [s EXCEPT !.exit_price = Some(avg_price),
                          !.btc_amount = left,
                          !.trades_today = s.trades_today + 1,
                          !.last_trade_time = Some(t)]
    IN  IF is_partial_exit /\ left > 0
        THEN [s1 EXCEPT !.mode = "LONG"]
        ELSE [s1 EXCEPT !.mode = "FLAT",
                        !.entry_time = Null,
                        !.trailing_stop_price = Null]

\* The state update of Strategy::execute_sell after a confirmed fill.
sell_filled(s, is_partial_exit, volume, avg_price, t) ==
    LET left == Max2(0, s.btc_amount - volume)
        s1   == [s EXCEPT !.exit_price = Some(avg_price),
                          !.btc_amount = left,
                          !.trades_today = s.trades_today + 1,
                          !.last_trade_time = Some(t)]
    IN  IF is_partial_exit /\ left > 0
        THEN [s1 EXCEPT !.partial_take_profit_done = TRUE, !.mode = "LONG"]
        ELSE [s1 EXCEPT !.mode = "FLAT",
                        !.entry_time = Null,
                        !.trailing_stop_price = Null]

\* btc_to_sell of Strategy::execute_sell (0 or less: the call fails).
BtcToSell(c, s, x) ==
    LET current_btc == IF c.dry_run THEN s.sim_btc_balance ELSE s.btc_amount
        wanted      == IF x.sell_volume > 0 THEN x.sell_volume ELSE current_btc
    IN  IF wanted <= 0 THEN wanted
        ELSE IF wanted > current_btc THEN current_btc ELSE wanted

\* The volume of the order execute() is about to place for decision x.
OrderVolume(c, s, x) ==
    IF x.decision = "BUY" THEN x.sizing.btc_to_buy ELSE BtcToSell(c, s, x)

\* A wait_for_fill that would give up on the first query that does not
\* report the order closed.
ImpatientWait(q, i, max_attempts) ==
    IF q = "closed" THEN "filled" ELSE "failed"

\* One iteration of Strategy::wait_for_fill on query result q, the i-th
\* query (from 1): "filled", "failed" (canceled or expired), "timeout"
\* (the budget is spent) or "again".
wait_for_fill_step(q, i, max_attempts) ==
    IF q = "closed" THEN "filled"
    ELSE IF q \in {"canceled", "expired"} THEN "failed"
    ELSE IF i >= max_attempts THEN "timeout"
    ELSE "again"

\* An execute that would book the order as filled when the confirmation
\* window runs out.
OptimisticFill(c, s, x, order, w, t) ==
    IF w \notin {"filled", "timeout"} THEN s
    ELSE IF order.side = "buy"
    THEN buy_filled(c, s, order.vol_exec, order.avg_price, t)
    ELSE sell_filled(s, x.is_partial_exit, order.vol_exec, order.avg_price, t)

\* The TradingState the live half of execute_buy / execute_sell leaves
\* once wait_for_fill ended as w for the order: updated on a confirmed
\* fill, untouched otherwise.
execute_fill(c, s, x, order, w, t) ==
    IF w # "filled" THEN s
    ELSE IF order.side = "buy"
    THEN buy_filled(c, s, order.vol_exec, order.avg_price, t)
    ELSE sell_filled(s, x.is_partial_exit, order.vol_exec, order.avg_price, t)

(* ------------------------------ exchange ------------------------------ *)

NoOrder == << >>

\* What the exchange can do with a market order it accepted: execute it
\* and close it, cancel it, let it expire, or leave it open for the whole
\* confirmation window.
Fates == {"closed", "canceled", "expired", "open"}

\* The volumes a closed order of volume v may report as executed: all of
\* it, or less (vol_exec is whatever the exchange reports).
ExecutedVolumes(v) == {v, v \div 2}

\* Whether the exchange can accept the order: the account covers it (and
\* the run has orders left).
Covered(acct, side, volume, price) ==
    /\ acct.accepted < MaxOrders
    /\ IF side = "buy" THEN (volume * price) \div Scale <= acct.cad
       ELSE volume <= acct.btc

\* The account and the order after the exchange accepted a market order.
Accept(acct, side, volume, price, fate, executed) ==
    LET done == IF fate = "closed" THEN executed ELSE 0
        paid == (done * price) \div Scale
    IN  [ cad   |-> IF side = "buy" THEN acct.cad - paid ELSE acct.cad + paid,
          btc   |-> IF side = "buy" THEN acct.btc + done ELSE acct.btc - done,
          accepted |-> acct.accepted + 1,
          order |-> << [ side |-> side, status |-> fate, vol_exec |-> done,
                         avg_price |-> price, queries |-> 0 ] >> ]

\* The same when the reply to the submission is lost: the client holds no
\* txid, so the order is never queried.
AcceptUnseen(acct, side, volume, price, fate, executed) ==
    [Accept(acct, side, volume, price, fate, executed) EXCEPT !.order = NoOrder]

\* What query_order reports for the order: its status, or no order at all.
QueryResults(order) == {"http_fail", "api_error", "not_found", order.status}

(* ----------------------- exchange client session ---------------------- *)

\* The limiter's parameters, in clock ticks: min_delay_ms_ from the
\* configuration, initial_backoff_ms_ and max_backoff_ms_ as
\* set_backoff_params may leave them (initial <= max).
ClientParams ==
    { [min_delay_ms |-> 2, initial_backoff_ms |-> 2, max_backoff_ms |-> 5],
      [min_delay_ms |-> 2, initial_backoff_ms |-> 1, max_backoff_ms |-> 4] }

DefaultParams == [min_delay_ms |-> 2, initial_backoff_ms |-> 1, max_backoff_ms |-> 4]

\* A caller outside any client operation.
IdleCaller == [pc |-> "idle", wake |-> 0]

\* KrakenClient::KrakenClient at clock value t, with the threads that will
\* call it.  last_done and failed_in_a_row are history: when the latest
\* request completed, and how many operations failed since the last
\* success.
NewClient(p, callers, t) ==
    [ params             |-> p,
      callers            |-> callers,
      clock              |-> t,
      last_request_time  |-> t - p.min_delay_ms,
      current_backoff_ms |-> 0,
      request_mutex      |-> 0,
      th                 |-> [c \in callers |-> IdleCaller],
      last_done          |-> Null,
      failed_in_a_row    |-> 0 ]

\* util::random_jitter_ms: the values the uniform draw can give.
random_jitter_ms(max_jitter_ms) == 0 .. max_jitter_ms

\* KrakenClient::apply_backoff: the values current_backoff_ms_ can take.
apply_backoff(backoff, p) ==
    LET b == IF backoff = 0 THEN p.initial_backoff_ms
             ELSE Min2(backoff * 2, p.max_backoff_ms)
    IN  { b + j : j \in random_jitter_ms(b \div 2) }

\* current_backoff_ms_ after a client operation with outcome o: untouched
\* by the request itself, then doubled by http_get/http_post on a
\* transport error or a non-200 status, reset to 0 on status 200, and in
\* that case raised again by the operation when the body carries an error
\* or does not parse.
BackoffAfter(backoff, p, o) ==
    CASE o = "ok"        -> {0}
      [] o = "http_fail" -> apply_backoff(backoff, p)
      [] OTHER           -> apply_backoff(0, p)

(* ------------------------------ actions ------------------------------- *)

\* The surroundings of a run nobody disturbs: g_running as initialised, no
\* kill-switch file, the wall clock (milliseconds) and the nonces sent so
\* far.
QuietEnv ==
    [ g_running |-> TRUE, kill_switch |-> FALSE, signals |-> 0,
      wall_ms |-> 0, nonces |-> << >>, quote |-> [bid |-> 0, ask |-> 0],
      samples |-> << >> ]

\* A kill switch nobody would look at.
KillSwitchIgnored(e) == FALSE

\* check_kill_switch: the marker file exists.
check_kill_switch(e) == e.kill_switch

\* A failure ceiling that would never be reached.
NeverTooManyFailures(f, c) == FALSE

\* The main loop's test of the failure counter against the ceiling.
TooManyFailures(f, c) == f >= c.max_consecutive_failures

NoGhost == [ pre |-> << >>, result |-> "none", cause |-> "", recon |-> "none" ]

\* The accounts a live run may find at the exchange.
Accounts == { [cad |-> 1000, btc |-> 0, accepted |-> 0, order |-> NoOrder],
              [cad |-> 600, btc |-> 4000, accepted |-> 0, order |-> NoOrder] }

Init ==
    /\ cfg \in Configs
    /\ st = default_state(Today(0))
    /\ file = NoFile
    /\ now = 0
    /\ pc = "start"
    /\ ctx = EmptyCtx
    /\ hist = [price_history |-> << >>, tr_history |-> << >>]
    /\ failures = 0
    /\ exch \in IF cfg.dry_run THEN {[cad |-> 0, btc |-> 0, accepted |-> 0, order |-> NoOrder]}
                ELSE Accounts
    /\ ghost = NoGhost
    /\ client = NewClient(DefaultParams, {1}, 0)
    /\ env = QuietEnv

\* Strategy::init_simulation.
init_simulation(s, initial_cad) ==
    IF s.mode = "FLAT"
    THEN [s EXCEPT !.sim_cad_balance = initial_cad, !.sim_btc_balance = 0]
    ELSE s

\* A reconciliation that would leave a missing entry price missing.
ReconcileWithoutFallback(s, acct, current_price) ==
    IF acct.btc > 0
    THEN [s EXCEPT !.mode = "LONG", !.btc_amount = acct.btc]
    ELSE [s EXCEPT !.mode = "FLAT", !.btc_amount = 0]

\* A reconciliation that would take the live amount and keep the mode.
ReconcileKeepingMode(s, acct, current_price) ==
    [s EXCEPT !.btc_amount = acct.btc]

\* reconcile_live_state after a successful balance fetch, before the save.
\* The dust threshold 0.000001 lies below one unit of the model's base
\* amounts, so "above the threshold" is "above 0".
reconcile_live_state(s, acct, current_price) ==
    IF acct.btc > 0
    THEN [s EXCEPT !.mode = "LONG",
                   !.btc_amount = acct.btc,
                   !.entry_price = IF HasValue(s.entry_price) THEN s.entry_price
                                   ELSE Some(current_price)]
    ELSE [s EXCEPT !.mode = "FLAT", !.btc_amount = 0]

\* main, from TradingState::load to "Entering main loop": date rollover,
\* then init_simulation (dry run) or the ticker fetch and
\* reconcile_live_state (live).
StartupDry ==
    /\ pc = "start"
    /\ ~check_kill_switch(env)
    /\ cfg.dry_run
    /\ LET s == check_date_rollover(st, now)
       IN  IF s.mode = "FLAT" /\ s.sim_cad_balance <= 0
           THEN /\ st' = init_simulation(s, cfg.sim_initial_cad)
                /\ file' = save(st')
           ELSE /\ st' = s
                /\ file' = file
    /\ pc' = "loop"
    /\ UNCHANGED <<env, client, cfg, now, ctx, hist, failures, exch, ghost>>

StartupLive ==
    /\ pc = "start"
    /\ ~check_kill_switch(env)
    /\ ~cfg.dry_run
    /\ \E ticker \in CallOutcomes, price \in Prices, bal \in CallOutcomes :
         LET s  == check_date_rollover(st, now)
             f1 == AfterCall(failures, ticker)
         IN  IF ticker # "ok"
             THEN /\ st' = s
                  /\ file' = file
                  /\ failures' = f1
                  /\ ghost' = [ghost EXCEPT !.recon = "skipped"]
             ELSE IF bal # "ok"
             THEN /\ st' = s
                  /\ file' = file
                  /\ failures' = AfterCall(f1, bal)
                  /\ ghost' = [ghost EXCEPT !.recon = "skipped"]
             ELSE /\ st' = reconcile_live_state(s, exch, price)
                  /\ file' = save(st')
                  /\ failures' = AfterCall(f1, bal)
                  /\ ghost' = [ghost EXCEPT !.recon = "ok"]
    /\ pc' = "loop"
    /\ UNCHANGED <<env, client, cfg, now, ctx, hist, exch>>

\* The main loop's check of the failure counter: halt, with the final save.
LoopHalt ==
    /\ pc = "loop"
    /\ env.g_running /\ ~check_kill_switch(env)
    /\ TooManyFailures(failures, cfg)
    /\ pc' = "stopped"
    /\ file' = save(st)
    /\ UNCHANGED <<env, client, cfg, st, now, ctx, hist, failures, exch, ghost>>

\* One call of strategy.evaluate() from the main loop.
Evaluate ==
    /\ pc = "loop"
    /\ env.g_running /\ ~check_kill_switch(env)
    /\ ~TooManyFailures(failures, cfg)
    /\ \E fetch \in FetchOutcomes, price \in Prices, bal \in CallOutcomes :
         LET r == evaluate(cfg, st, hist, failures, now, fetch, price, bal, exch)
         IN  /\ st' = r.st
             /\ ctx' = r.ctx
             /\ hist' = r.hist
             /\ failures' = r.failures
    /\ pc' = "decided"
    /\ UNCHANGED <<env, client, cfg, file, now, exch, ghost>>

\* NOOP or BLOCKED: main does not call execute().
ExecuteNothing ==
    /\ pc = "decided"
    /\ ctx.decision \in {"NOOP", "BLOCKED"}
    /\ pc' = "sleep"
    /\ UNCHANGED <<env, client, cfg, st, file, now, ctx, hist, failures, exch, ghost>>

\* Strategy::execute in dry-run mode: execute_buy / execute_sell with
\* simulate_fill and its save.
ExecuteDry ==
    /\ pc = "decided"
    /\ ctx.decision \in {"BUY", "SELL"}
    /\ cfg.dry_run
    /\ LET volume == OrderVolume(cfg, st, ctx)
       IN  IF ctx.decision = "SELL" /\ volume <= 0
           THEN /\ st' = st
                /\ file' = file
                /\ ghost' = [ghost EXCEPT !.result = "fail", !.cause = "zero_volume"]
           ELSE /\ st' = IF ctx.decision = "BUY"
                         THEN simulate_buy(cfg, st, volume, ctx.current_price, now)
                         ELSE simulate_sell(cfg, st, volume, ctx.current_price, now)
                /\ file' = save(st')
                /\ ghost' = [ghost EXCEPT !.result = "ok", !.cause = "simulated"]
    /\ pc' = "sleep"
    /\ UNCHANGED <<env, client, cfg, now, ctx, hist, failures, exch>>

\* How place_market_order can end: the request never reaches the exchange
\* ("unreachable"), the exchange refuses the order ("rejected"), the
\* order is accepted and the reply is lost ("lost_reply"), or the order is
\* accepted and its txid returned ("accepted").
SubmitOutcomes == {"unreachable", "rejected", "lost_reply", "accepted"}

\* Strategy::execute in live mode up to the return of place_market_order.
ExecuteLive ==
    /\ pc = "decided"
    /\ ctx.decision \in {"BUY", "SELL"}
    /\ ~cfg.dry_run
    /\ LET side   == IF ctx.decision = "BUY" THEN "buy" ELSE "sell"
           volume == OrderVolume(cfg, st, ctx)
           snap   == << [st |-> st, file |-> file] >>
       IN  IF ctx.decision = "SELL" /\ volume <= 0
           THEN /\ pc' = "sleep"
                /\ ghost' = [ghost EXCEPT !.pre = snap, !.result = "fail",
                                          !.cause = "zero_volume"]
                /\ UNCHANGED <<exch, failures>>
           ELSE \E o \in SubmitOutcomes, fate \in Fates,
                   executed \in ExecutedVolumes(volume) :
                  /\ o \in {"lost_reply", "accepted"}
                        => Covered(exch, side, volume, ctx.current_price)
                  /\ exch' = CASE o = "accepted" ->
                                    Accept(exch, side, volume, ctx.current_price,
                                           fate, executed)
                               [] o = "lost_reply" ->
                                    AcceptUnseen(exch, side, volume, ctx.current_price,
                                                 fate, executed)
                               [] OTHER -> exch
                  /\ failures' = CASE o = "accepted" -> AfterCall(failures, "ok")
                                   [] o = "rejected" -> AfterCall(failures, "api_error")
                                   [] OTHER -> AfterCall(failures, "http_fail")
                  /\ pc' = IF o = "accepted" THEN "polling" ELSE "sleep"
                  /\ ghost' = IF o = "accepted"
                              THEN [ghost EXCEPT !.pre = snap]
                              ELSE [ghost EXCEPT !.pre = snap, !.result = "fail",
                                                 !.cause = "submit_failed"]
    /\ UNCHANGED <<env, client, cfg, st, file, now, ctx, hist>>

\* One iteration of wait_for_fill, and on "filled" the rest of
\* execute_buy / execute_sell: the state update and its save.
Poll ==
    /\ pc = "polling"
    /\ LET order == exch.order[1]
           i     == order.queries + 1
       IN  \E q \in QueryResults(order) :
             LET w == wait_for_fill_step(q, i, MaxAttempts)
             IN  /\ failures' = AfterQuery(failures, q)
                 /\ exch' = [exch EXCEPT !.order = << [order EXCEPT !.queries = i] >>]
                 /\ st' = execute_fill(cfg, st, ctx, order, w, now)
                 /\ file' = IF w = "filled" THEN save(st') ELSE file
                 /\ pc' = IF w = "again" THEN "polling" ELSE "sleep"
                 /\ ghost' = CASE w = "filled" ->
                                    [ghost EXCEPT !.result = "ok", !.cause = "closed"]
                                [] w = "failed" ->
                                    [ghost EXCEPT !.result = "fail", !.cause = q]
                                [] w = "timeout" ->
                                    [ghost EXCEPT !.result = "fail", !.cause = "timeout"]
                                [] OTHER -> ghost
    /\ UNCHANGED <<env, client, cfg, now, ctx, hist>>

\* The sleep that ends a cycle (poll_interval_seconds >= 1); the next
\* cycle builds a new TradeContext.
Sleep ==
    /\ pc = "sleep"
    /\ env.g_running
    /\ now < MaxTime
    /\ now' = now + 1
    /\ pc' = "loop"
    /\ ctx' = EmptyCtx
    /\ exch' = [exch EXCEPT !.order = NoOrder]
    /\ ghost' = [ghost EXCEPT !.pre = << >>, !.result = "none", !.cause = ""]
    /\ UNCHANGED <<env, client, cfg, st, file, hist, failures>>

Next ==
    \/ StartupDry
    \/ StartupLive
    \/ LoopHalt
    \/ Evaluate
    \/ ExecuteNothing
    \/ ExecuteDry
    \/ ExecuteLive
    \/ Poll
    \/ Sleep

Spec == Init /\ [][Next]_vars

(* ------------------ a run with its surroundings ----------------------- *)

\* The configurations run with a kill switch and signals.
MainConfigs == { MkConfig(TRUE, "basic"), MkConfig(FALSE, "basic") }

\* main at its start in surroundings e, the live account holding quote
\* currency only.
InitMain(e) ==
    /\ cfg \in MainConfigs
    /\ st = default_state(Today(0))
    /\ file = NoFile
    /\ now = 0
    /\ pc = "start"
    /\ ctx = EmptyCtx
    /\ hist = [price_history |-> << >>, tr_history |-> << >>]
    /\ failures = 0
    /\ exch = IF cfg.dry_run THEN [cad |-> 0, btc |-> 0, accepted |-> 0, order |-> NoOrder]
              ELSE [cad |-> 1000, btc |-> 0, accepted |-> 0, order |-> NoOrder]
    /\ ghost = NoGhost
    /\ client = NewClient(DefaultParams, {1}, 0)
    /\ env = e

\* A run whose kill-switch file may be there at startup or appear later.
InitKill == \E k \in BOOLEAN : InitMain([QuietEnv EXCEPT !.kill_switch = k])

\* A run that may receive a shutdown signal.
InitSignal == InitMain(QuietEnv)

\* main returns before it loads the state: the kill switch is on at
\* startup.
StartupKilled ==
    /\ pc = "start"
    /\ check_kill_switch(env)
    /\ pc' = "exited"
    /\ UNCHANGED <<env, client, cfg, st, file, now, ctx, hist, failures, exch, ghost>>

\* The main loop ends on g_running false (tested by the while and by the
\* sleep loop) or on the kill switch (tested at the start of a cycle);
\* the final save follows.
LoopExit ==
    /\ pc \in {"loop", "sleep"}
    /\ IF pc = "loop" THEN ~(env.g_running /\ ~check_kill_switch(env))
       ELSE ~env.g_running
    /\ pc' = "stopped"
    /\ file' = save(st)
    /\ UNCHANGED <<env, client, cfg, st, now, ctx, hist, failures, exch, ghost>>

\* Somebody creates the kill-switch file while the process runs.
KillSwitchOn ==
    /\ pc \notin {"exited", "stopped", "hung"}
    /\ ~env.kill_switch
    /\ env' = [env EXCEPT !.kill_switch = TRUE]
    /\ UNCHANGED <<client, cfg, st, file, now, pc, ctx, hist, failures, exch, ghost>>

\* What the delivery of SIGINT or SIGTERM can lead to: signal_handler logs
\* through Logger::write, which takes the logger's mutex, and only then
\* clears g_running.  It returns ("handled") unless the main thread was
\* interrupted inside Logger::write, holding that mutex: locking it again
\* on the same thread never returns ("deadlock").  The main thread logs in
\* every step but the sleep.
SignalOutcomes(p) == IF p = "sleep" THEN {"handled"} ELSE {"handled", "deadlock"}

\* SIGINT or SIGTERM is delivered to the running process.
Signal ==
    /\ pc \notin {"exited", "stopped", "hung"}
    /\ env.signals = 0
    /\ \E o \in SignalOutcomes(pc) :
         IF o = "handled"
         THEN /\ env' = [env EXCEPT !.signals = 1, !.g_running = FALSE]
              /\ pc' = pc
         ELSE /\ env' = [env EXCEPT !.signals = 1]
              /\ pc' = "hung"
    /\ UNCHANGED <<client, cfg, st, file, now, ctx, hist, failures, exch, ghost>>

NextKill ==
    \/ StartupKilled
    \/ StartupDry
    \/ StartupLive
    \/ LoopExit
    \/ LoopHalt
    \/ Evaluate
    \/ ExecuteNothing
    \/ ExecuteDry
    \/ ExecuteLive
    \/ Poll
    \/ Sleep
    \/ KillSwitchOn

SpecKill == InitKill /\ [][NextKill]_vars

NextSignal ==
    \/ StartupDry
    \/ StartupLive
    \/ LoopExit
    \/ LoopHalt
    \/ Evaluate
    \/ ExecuteNothing
    \/ ExecuteDry
    \/ ExecuteLive
    \/ Poll
    \/ Sleep
    \/ Signal

SpecSignal == InitSignal /\ [][NextSignal]_vars

(* ---------------------- a run from a state file ----------------------- *)

\* A state file that std::ofstream has opened, and so emptied, and into
\* which the JSON text is not, or not completely, written yet.
Truncated == [ absent |-> FALSE, complete |-> FALSE ]

\* TradingState::load: defaults when the file is missing or does not
\* parse; otherwise each of the nine persisted fields is taken from the
\* file when present there, independently of the others, and the
\* remaining fields keep their defaults.
load(f, d) ==
    IF f = NoFile THEN default_state(d)
    ELSE IF f = Truncated THEN default_state(d)
    ELSE [ default_state(d) EXCEPT
             !.mode                   = f.mode,
             !.entry_price            = f.entry_price,
             !.exit_price             = f.exit_price,
             !.btc_amount             = f.btc_amount,
             !.last_trade_time        = f.last_trade_time,
             !.trades_today           = f.trades_today,
             !.trades_date_yyyy_mm_dd = f.trades_date_yyyy_mm_dd,
             !.sim_cad_balance        = f.sim_cad_balance,
             !.sim_btc_balance        = f.sim_btc_balance ]

\* State files a run may find: none, one written after a sell, one written
\* after a buy, and files that say LONG with entry_price null.
StateFiles ==
    { NoFile,
      [ mode |-> "FLAT", entry_price |-> Null, exit_price |-> Some(10),
        btc_amount |-> 0, last_trade_time |-> Some(0), trades_today |-> 1,
        trades_date_yyyy_mm_dd |-> Today(0),
        sim_cad_balance |-> 1000, sim_btc_balance |-> 0 ],
      [ mode |-> "LONG", entry_price |-> Some(10), exit_price |-> Null,
        btc_amount |-> 4000, last_trade_time |-> Some(0), trades_today |-> 1,
        trades_date_yyyy_mm_dd |-> Today(0),
        sim_cad_balance |-> 600, sim_btc_balance |-> 4000 ] }
    \cup
    { [ mode |-> "LONG", entry_price |-> Null, exit_price |-> x,
        btc_amount |-> 4000, last_trade_time |-> l, trades_today |-> n,
        trades_date_yyyy_mm_dd |-> Today(0),
        sim_cad_balance |-> 600, sim_btc_balance |-> 4000 ] :
      x \in {Null, Some(10)}, l \in {Null, Some(0)}, n \in {0, 1} }

\* main up to TradingState::load.
InitLoaded ==
    /\ cfg \in Configs
    /\ file \in StateFiles
    /\ st = load(file, Today(0))
    /\ now = 0
    /\ pc = "start"
    /\ ctx = EmptyCtx
    /\ hist = [price_history |-> << >>, tr_history |-> << >>]
    /\ failures = 0
    /\ exch \in IF cfg.dry_run THEN {[cad |-> 0, btc |-> 0, accepted |-> 0, order |-> NoOrder]}
                ELSE Accounts
    /\ ghost = NoGhost
    /\ client = NewClient(DefaultParams, {1}, 0)
    /\ env = QuietEnv

\* The main loop as long as evaluate() asks for no order.
NextLoaded ==
    \/ StartupDry
    \/ StartupLive
    \/ LoopHalt
    \/ Evaluate
    \/ ExecuteNothing
    \/ Sleep

SpecLoaded == InitLoaded /\ [][NextLoaded]_vars

(* ------------------- saving, crashing, restarting --------------------- *)

\* TradingStates in memory when save() is called: what a state file
\* loads as, and for an open position the exit-management fields a
\* running process may have set.
MemoryStates ==
    LET loaded == { load(f, Today(0)) : f \in StateFiles }
    IN  loaded \cup
        { [s EXCEPT !.trailing_stop_price = Some(9 * (Scale - 10)),
                    !.entry_time = Some(0),
                    !.partial_take_profit_done = p] :
          s \in { l \in loaded : l.mode = "LONG" }, p \in BOOLEAN }

\* save() is about to run on a state in memory, over a state file written
\* earlier (or none).  ghost.pre keeps both.
InitSave ==
    /\ cfg = MkConfig(TRUE, "trail")
    /\ file \in StateFiles
    /\ st \in MemoryStates
    /\ now = 0
    /\ pc = "saving"
    /\ ctx = EmptyCtx
    /\ hist = [price_history |-> << >>, tr_history |-> << >>]
    /\ failures = 0
    /\ exch = [cad |-> 0, btc |-> 0, accepted |-> 0, order |-> NoOrder]
    /\ ghost = [NoGhost EXCEPT !.pre = << [st |-> st, file |-> file] >>]
    /\ client = NewClient(DefaultParams, {1}, 0)
    /\ env = QuietEnv

\* TradingState::save, first half: std::ofstream file(path) opens the
\* state file itself for writing and empties it.
SaveOpen ==
    /\ pc = "saving"
    /\ file' = Truncated
    /\ pc' = "writing"
    /\ UNCHANGED <<env, client, cfg, st, now, ctx, hist, failures, exch, ghost>>

\* TradingState::save, second half: the JSON text is written and the file
\* closed.
SaveWrite ==
    /\ pc = "writing"
    /\ file' = save(st)
    /\ pc' = "saved"
    /\ UNCHANGED <<env, client, cfg, st, now, ctx, hist, failures, exch, ghost>>

\* The process dies, before, during or after the save.
Crash ==
    /\ pc \in {"saving", "writing", "saved"}
    /\ pc' = "crashed"
    /\ UNCHANGED <<env, client, cfg, st, file, now, ctx, hist, failures, exch, ghost>>

\* The next run loads the state file.
Restart ==
    /\ pc = "crashed"
    /\ st' = load(file, Today(now))
    /\ pc' = "loaded"
    /\ UNCHANGED <<env, client, cfg, file, now, ctx, hist, failures, exch, ghost>>

NextSave ==
    \/ SaveOpen
    \/ SaveWrite
    \/ Crash
    \/ Restart

SpecSave == InitSave /\ [][NextSave]_vars

(* ------------------- nonces of authenticated requests ----------------- *)

\* Wall-clock milliseconds are followed up to MaxWall, and a session up to
\* MaxNonces authenticated requests.
MaxWall == 5
MaxNonces == 3

\* util::now_epoch_ms: std::chrono::system_clock, the wall clock, in
\* milliseconds since the epoch.
now_epoch_ms(e) == e.wall_ms

\* util::generate_nonce: the decimal text of now_epoch_ms(); it is kept
\* here as the integer it denotes.  No earlier nonce is consulted.
generate_nonce(e) == now_epoch_ms(e)

AuthenticatedOperations == {"get_balance", "place_market_order", "query_order"}

InitNonce ==
    /\ cfg = MkConfig(FALSE, "basic")
    /\ st = default_state(Today(0))
    /\ file = NoFile
    /\ now = 0
    /\ pc = "loop"
    /\ ctx = EmptyCtx
    /\ hist = [price_history |-> << >>, tr_history |-> << >>]
    /\ failures = 0
    /\ exch = [cad |-> 0, btc |-> 0, accepted |-> 0, order |-> NoOrder]
    /\ ghost = NoGhost
    /\ client = NewClient(DefaultParams, {1}, 0)
    /\ env = QuietEnv

\* A millisecond of wall-clock time passes between requests.
WallTick ==
    /\ env.wall_ms < MaxWall
    /\ env' = [env EXCEPT !.wall_ms = @ + 1]
    /\ UNCHANGED <<client, cfg, st, file, now, pc, ctx, hist, failures, exch, ghost>>

\* The system clock is set back (a time-synchronisation step, an
\* operator's correction): system_clock is not monotonic.
ClockSetBack ==
    /\ \E w \in 0..(env.wall_ms - 1) :
          env' = [env EXCEPT !.wall_ms = w]
    /\ UNCHANGED <<client, cfg, st, file, now, pc, ctx, hist, failures, exch, ghost>>

\* get_balance, place_market_order, query_order: the nonce is generated,
\* put in the POST data and sent; the request takes at least a
\* millisecond.
AuthenticatedRequest ==
    /\ Len(env.nonces) < MaxNonces
    /\ env.wall_ms < MaxWall
    /\ \E op \in AuthenticatedOperations :
          env' = [env EXCEPT
                    !.nonces = Append(@, [op |-> op, nonce |-> generate_nonce(env)]),
                    !.wall_ms = @ + 1]
    /\ UNCHANGED <<client, cfg, st, file, now, pc, ctx, hist, failures, exch, ghost>>

NextNonce ==
    \/ WallTick
    \/ ClockSetBack
    \/ AuthenticatedRequest

SpecNonce == InitNonce /\ [][NextNonce]_vars

(* ------------------- one evaluation, with the market's quote ---------- *)

\* Best bid and ask the exchange's ticker reply carries next to the last
\* trade price: a closed spread, and a spread of a fifth of the mid price.
Quotes == { [bid |-> 10, ask |-> 10], [bid |-> 9, ask |-> 11] }

\* Price windows a run has after no, one or two fetched prices.
PriceWindows(c) ==
    LET none == [price_history |-> << >>, tr_history |-> << >>]
        one  == { update_indicators(c, none, p) : p \in Prices }
        two  == { update_indicators(c, h, p) : h \in one, p \in Prices }
    IN  {none} \cup one \cup two

\* The main loop about to call evaluate(): any loadable or running state,
\* any price window, a second after the last recorded trade.
InitOrder ==
    /\ cfg \in { MkConfig(TRUE, "full"), MkConfig(FALSE, "full") }
    /\ st \in MemoryStates
    /\ file = NoFile
    /\ now = 1
    /\ pc = "loop"
    /\ ctx = EmptyCtx
    /\ hist \in PriceWindows(cfg)
    /\ failures \in {0, 1}
    /\ exch = IF cfg.dry_run THEN [cad |-> 0, btc |-> 0, accepted |-> 0, order |-> NoOrder]
              ELSE [cad |-> 1000, btc |-> 0, accepted |-> 0, order |-> NoOrder]
    /\ ghost = NoGhost
    /\ client = NewClient(DefaultParams, {1}, 0)
    /\ env = QuietEnv

\* One call of strategy.evaluate() from the main loop, the quote of the
\* ticker reply it fetched kept in env.  get_ticker reads the last trade
\* price of the reply only.
EvaluateQuoted ==
    /\ pc = "loop"
    /\ env.g_running /\ ~check_kill_switch(env)
    /\ ~TooManyFailures(failures, cfg)
    /\ \E fetch \in FetchOutcomes, price \in Prices, bal \in CallOutcomes,
          q \in Quotes :
         LET r == evaluate(cfg, st, hist, failures, now, fetch, price, bal, exch)
         IN  /\ st' = r.st
             /\ ctx' = r.ctx
             /\ hist' = r.hist
             /\ failures' = r.failures
             /\ env' = [env EXCEPT !.quote = q]
    /\ pc' = "decided"
    /\ UNCHANGED <<client, cfg, file, now, exch, ghost>>

NextOrder == EvaluateQuoted

SpecOrder == InitOrder /\ [][NextOrder]_vars

(* ------------------- a run holding a position ------------------------- *)

\* The TradingState of a run that opened a position the day before, by
\* the fill updates of execute_buy / simulate_fill, and took the partial
\* take-profit (partial) or not: 40.00 bought at 10, and where the
\* partial take-profit was taken, half of it sold at 11.
HeldState(c, partial) ==
    LET HeldVolume  == 4000
        HeldEntry   == 10
        HeldPartial == 11
        t0     == 0 - DayLen
        s0     == IF c.dry_run
                  THEN init_simulation(default_state(Today(t0)), c.sim_initial_cad)
                  ELSE default_state(Today(t0))
        bought == IF c.dry_run
                  THEN simulate_buy(c, s0, HeldVolume, HeldEntry, t0)
                  ELSE buy_filled(c, s0, HeldVolume, HeldEntry, t0)
    IN  IF ~partial THEN bought
        ELSE IF c.dry_run
        THEN simulate_sell(c, bought, HeldVolume \div 2, HeldPartial, t0)
        ELSE sell_filled(bought, TRUE, HeldVolume \div 2, HeldPartial, t0)

\* The main loop of a run that holds a position since the day before, the
\* live account holding what the fills left.
InitPosition ==
    /\ cfg \in { MkConfig(TRUE, "trail"), MkConfig(FALSE, "trail") }
    /\ \E partial \in BOOLEAN :
          /\ st = HeldState(cfg, partial)
          /\ exch = IF cfg.dry_run
                    THEN [cad |-> 0, btc |-> 0, accepted |-> 0, order |-> NoOrder]
                    ELSE [cad |-> 600 + (IF partial THEN 220 ELSE 0),
                          btc |-> st.btc_amount, accepted |-> 0, order |-> NoOrder]
    /\ file = save(st)
    /\ now = 0
    /\ pc = "loop"
    /\ ctx = EmptyCtx
    /\ hist = [price_history |-> <<10>>, tr_history |-> << >>]
    /\ failures = 0
    /\ ghost = NoGhost
    /\ client = NewClient(DefaultParams, {1}, 0)
    /\ env = QuietEnv

NextPosition ==
    \/ LoopHalt
    \/ Evaluate
    \/ ExecuteNothing
    \/ ExecuteDry
    \/ ExecuteLive
    \/ Poll
    \/ Sleep

SpecPosition == InitPosition /\ [][NextPosition]_vars

(* ------------------- selling a held position -------------------------- *)

\* Fractions Config::validate accepts for partial_tp_sell_pct: the ends of
\* [0, 1] and a half.
SellFractions == {0, Scale \div 2, Scale}

\* The main loop of a run that holds a whole position since the day
\* before, under each fraction.
InitSell ==
    /\ cfg \in { [MkConfig(d, "trail") EXCEPT !.partial_tp_sell_pct = p] :
                 d \in BOOLEAN, p \in SellFractions }
    /\ st = HeldState(cfg, FALSE)
    /\ exch = IF cfg.dry_run
              THEN [cad |-> 0, btc |-> 0, accepted |-> 0, order |-> NoOrder]
              ELSE [cad |-> 600, btc |-> st.btc_amount, accepted |-> 0,
                    order |-> NoOrder]
    /\ file = save(st)
    /\ now = 0
    /\ pc = "loop"
    /\ ctx = EmptyCtx
    /\ hist = [price_history |-> <<10>>, tr_history |-> << >>]
    /\ failures = 0
    /\ ghost = NoGhost
    /\ client = NewClient(DefaultParams, {1}, 0)
    /\ env = QuietEnv

SpecSell == InitSell /\ [][NextPosition]_vars

(* ------------------- the rolling windows on their own ----------------- *)

\* Price samples followed per run of the windows.
MaxSamples == 4

\* Window sizes Config::validate accepts: 1 <= short <= long, atr >= 1.
WindowConfigs ==
    { [MkConfig(TRUE, "full") EXCEPT !.trend_window_short = s,
                                     !.trend_window_long = l,
                                     !.atr_window = a] :
      s \in 1..3, l \in 1..3, a \in 1..2 }

\* A Strategy just constructed: both windows empty.  env.samples keeps
\* every price sampled.
InitWindows ==
    /\ cfg \in { c \in WindowConfigs : c.trend_window_short <= c.trend_window_long }
    /\ st = default_state(Today(0))
    /\ file = NoFile
    /\ now = 0
    /\ pc = "loop"
    /\ ctx = EmptyCtx
    /\ hist = [price_history |-> << >>, tr_history |-> << >>]
    /\ failures = 0
    /\ exch = [cad |-> 0, btc |-> 0, accepted |-> 0, order |-> NoOrder]
    /\ ghost = NoGhost
    /\ client = NewClient(DefaultParams, {1}, 0)
    /\ env = QuietEnv

\* update_indicators on one more fetched price.
Sample ==
    /\ Len(env.samples) < MaxSamples
    /\ \E price \in Prices :
          /\ hist' = update_indicators(cfg, hist, price)
          /\ env' = [env EXCEPT !.samples = Append(@, price)]
    /\ UNCHANGED <<client, cfg, st, file, now, pc, ctx, failures, exch, ghost>>

NextWindows == Sample

SpecWindows == InitWindows /\ [][NextWindows]_vars

(* ------------------- a simulated run from a state file ---------------- *)

\* The state file a live run holding 40.00 bought at 10 leaves: save()
\* writes the simulated balances of a live run, which are 0.
LiveWrittenFile ==
    [ mode |-> "LONG", entry_price |-> Some(10), exit_price |-> Null,
      btc_amount |-> 4000, last_trade_time |-> Some(0), trades_today |-> 1,
      trades_date_yyyy_mm_dd |-> Today(0),
      sim_cad_balance |-> 0, sim_btc_balance |-> 0 ]

\* A dry run started on any state file, the one of a live run included.
InitDry ==
    /\ cfg \in { MkConfig(TRUE, p) : p \in Profiles }
    /\ file \in StateFiles \cup {LiveWrittenFile}
    /\ st = load(file, Today(0))
    /\ now = 0
    /\ pc = "start"
    /\ ctx = EmptyCtx
    /\ hist = [price_history |-> << >>, tr_history |-> << >>]
    /\ failures = 0
    /\ exch = [cad |-> 0, btc |-> 0, accepted |-> 0, order |-> NoOrder]
    /\ ghost = NoGhost
    /\ client = NewClient(DefaultParams, {1}, 0)
    /\ env = QuietEnv

NextDry ==
    \/ StartupDry
    \/ LoopHalt
    \/ Evaluate
    \/ ExecuteNothing
    \/ ExecuteDry
    \/ Sleep

SpecDry == InitDry /\ [][NextDry]_vars

(* ------------------- a run that goes on ------------------------------- *)

\* A run under a configuration with a time-based exit, dry or live.
InitOngoing ==
    /\ cfg \in { MkConfig(TRUE, "full"), MkConfig(FALSE, "full") }
    /\ st = default_state(Today(0))
    /\ file = NoFile
    /\ now = 0
    /\ pc = "start"
    /\ ctx = EmptyCtx
    /\ hist = [price_history |-> << >>, tr_history |-> << >>]
    /\ failures = 0
    /\ exch = IF cfg.dry_run THEN [cad |-> 0, btc |-> 0, accepted |-> 0, order |-> NoOrder]
              ELSE [cad |-> 1000, btc |-> 0, accepted |-> 0, order |-> NoOrder]
    /\ ghost = NoGhost
    /\ client = NewClient(DefaultParams, {1}, 0)
    /\ env = QuietEnv

\* The sleep that ends a cycle, in a run that is followed without end: the
\* clock is followed up to MaxTime and read as MaxTime from then on.
SleepOn ==
    /\ pc = "sleep"
    /\ env.g_running
    /\ now' = IF now < MaxTime THEN now + 1 ELSE now
    /\ pc' = "loop"
    /\ ctx' = EmptyCtx
    /\ exch' = [exch EXCEPT !.order = NoOrder]
    /\ ghost' = [ghost EXCEPT !.pre = << >>, !.result = "none", !.cause = ""]
    /\ UNCHANGED <<env, client, cfg, st, file, hist, failures>>

\* The main loop is about to call evaluate(): the guard of Evaluate.
EvaluateDue ==
    /\ pc = "loop"
    /\ env.g_running /\ ~check_kill_switch(env)
    /\ ~TooManyFailures(failures, cfg)

\* An evaluation whose price fetch succeeds with a fresh price.  Evaluate
\* is the only step from "loop" to "decided".
EvaluateFetched ==
    /\ pc = "loop"
    /\ pc' = "decided"
    /\ ctx'.fetched

\* Price fetches eventually succeed: strong fairness of EvaluateFetched,
\* written out with EvaluateDue as its enabling condition.
FetchesSucceed == (<>[]~EvaluateDue) \/ []<><<EvaluateFetched>>_vars

NextOngoing ==
    \/ StartupDry
    \/ StartupLive
    \/ LoopHalt
    \/ Evaluate
    \/ ExecuteNothing
    \/ ExecuteDry
    \/ ExecuteLive
    \/ Poll
    \/ SleepOn

\* The loop runs on: every step of a cycle is taken when it is due, time
\* advances with every sleep, and price fetches succeed again and again.
SpecOngoing ==
    /\ InitOngoing
    /\ [][NextOngoing]_vars
    /\ WF_vars(StartupDry)
    /\ WF_vars(StartupLive)
    /\ WF_vars(LoopHalt)
    /\ WF_vars(ExecuteNothing)
    /\ WF_vars(ExecuteDry)
    /\ WF_vars(ExecuteLive)
    /\ WF_vars(Poll)
    /\ WF_vars(SleepOn)
    /\ FetchesSucceed

(* ------------------- position sizing on its own ----------------------- *)

\* Configurations for sizing: the risk, stop-loss and position-cap
\* percentages varied.  Config::validate accepts all of them but
\* stop_loss_pct = 0.
SizingConfigs ==
    { [ MkConfig(dry, "basic") EXCEPT !.risk_per_trade_pct = r,
                                      !.stop_loss_pct = sl,
                                      !.max_position_pct = m ] :
      dry \in BOOLEAN, r \in {4, 10}, sl \in {0, 5, 10}, m \in {50, 90} }

\* Quote balances.
Balances == {0, 1, 50, 1000}

\* Base amounts held.
Holdings == {0, 4000}

InitSizing ==
    /\ cfg \in SizingConfigs
    /\ \E b \in Balances, q \in Holdings :
         /\ st = IF q = 0
                 THEN [default_state(Today(0)) EXCEPT
                         !.sim_cad_balance = IF cfg.dry_run THEN b ELSE 0]
                 ELSE [default_state(Today(0)) EXCEPT
                         !.mode = "LONG",
                         !.entry_price = Some(10),
                         !.btc_amount = q,
                         !.sim_cad_balance = IF cfg.dry_run THEN b ELSE 0,
                         !.sim_btc_balance = IF cfg.dry_run THEN q ELSE 0]
         /\ exch = IF cfg.dry_run
                   THEN [cad |-> 0, btc |-> 0, accepted |-> 0, order |-> NoOrder]
                   ELSE [cad |-> b, btc |-> q, accepted |-> 0, order |-> NoOrder]
    /\ file = NoFile
    /\ now = 0
    /\ pc = "loop"
    /\ ctx = EmptyCtx
    /\ hist = [price_history |-> << >>, tr_history |-> << >>]
    /\ failures = 0
    /\ ghost = NoGhost
    /\ client = NewClient(DefaultParams, {1}, 0)
    /\ env = QuietEnv

\* One call of Strategy::calculate_sizing.
CalculateSizing ==
    /\ pc = "loop"
    /\ \E price \in Prices, bal \in CallOutcomes :
         /\ ctx' = [EmptyCtx EXCEPT
                      !.current_price = price,
                      !.sizing = calculate_sizing(cfg, st, price, bal, exch)]
         /\ failures' = IF cfg.dry_run THEN failures ELSE AfterCall(failures, bal)
    /\ pc' = "sized"
    /\ UNCHANGED <<env, client, cfg, st, file, now, hist, exch, ghost>>

NextSizing ==
    \/ CalculateSizing
    \/ Evaluate

SpecSizing == InitSizing /\ [][NextSizing]_vars

(* --------------------- the client and its callers --------------------- *)

\* The set of threads calling the client: the main thread alone, as the
\* program runs, or the main thread and a second one.
CallerSets == {{1}, {1, 2}}

InitClient ==
    /\ cfg = MkConfig(FALSE, "basic")
    /\ st = default_state(Today(0))
    /\ file = NoFile
    /\ now = 0
    /\ pc = "loop"
    /\ ctx = EmptyCtx
    /\ hist = [price_history |-> << >>, tr_history |-> << >>]
    /\ failures = 0
    /\ exch = [cad |-> 0, btc |-> 0, accepted |-> 0, order |-> NoOrder]
    /\ ghost = NoGhost
    /\ \E p \in ClientParams, cs \in CallerSets : client = NewClient(p, cs, 0)
    /\ env = QuietEnv

\* Time passes.
Tick ==
    /\ client.clock < MaxClock
    /\ client' = [client EXCEPT !.clock = @ + 1]
    /\ UNCHANGED <<env, cfg, st, file, now, pc, ctx, hist, failures, exch, ghost>>

\* enforce_rate_limit up to the sleep: take request_mutex_, read the
\* clock, last_request_time_ and current_backoff_ms_, and decide until
\* when to sleep.
GateEnter ==
    /\ \E t \in client.callers :
         /\ client.th[t].pc = "idle"
         /\ client.request_mutex = 0
         /\ LET elapsed     == client.clock - client.last_request_time
                total_delay == client.params.min_delay_ms + client.current_backoff_ms
                wake        == IF elapsed < total_delay
                               THEN client.clock + (total_delay - elapsed)
                               ELSE client.clock
            IN  client' = [client EXCEPT !.request_mutex = t,
                                         !.th[t] = [pc |-> "gate", wake |-> wake]]
    /\ UNCHANGED <<env, cfg, st, file, now, pc, ctx, hist, failures, exch, ghost>>

\* enforce_rate_limit from the end of the sleep: stamp last_request_time_,
\* release request_mutex_; the caller goes on to perform the request.
GateLeave ==
    /\ \E t \in client.callers :
         /\ client.th[t].pc = "gate"
         /\ client.clock >= client.th[t].wake
         /\ client' = [client EXCEPT !.last_request_time = client.clock,
                                     !.request_mutex = 0,
                                     !.th[t] = [pc |-> "flight", wake |-> 0]]
    /\ UNCHANGED <<env, cfg, st, file, now, pc, ctx, hist, failures, exch, ghost>>

\* The request completes and the client operation returns: the failure
\* counter and the backoff as http_get/http_post and the operation leave
\* them.
Reply ==
    /\ \E t \in client.callers, o \in CallOutcomes :
         /\ client.th[t].pc = "flight"
         /\ failures' = AfterCall(failures, o)
         /\ \E b \in BackoffAfter(client.current_backoff_ms, client.params, o) :
              client' = [client EXCEPT
                           !.current_backoff_ms = b,
                           !.th[t] = IdleCaller,
                           !.last_done = Some(client.clock),
                           !.failed_in_a_row = IF o = "ok" THEN 0 ELSE @ + 1]
    /\ UNCHANGED <<env, cfg, st, file, now, pc, ctx, hist, exch, ghost>>

NextClient ==
    \/ Tick
    \/ GateEnter
    \/ GateLeave
    \/ Reply

SpecClient == InitClient /\ [][NextClient]_vars

(* ------------------------------ properties ---------------------------- *)

\* The step on which execute() books a fill (confirmed or simulated).
FillStep == ghost'.result = "ok" /\ ghost.result # "ok"

\* The step that is one call of evaluate().
EvaluateStep == pc = "loop" /\ pc' = "decided"

\* now - last_trade_time < cooldown_seconds, last_trade_time set.
InsideCooldown ==
    /\ HasValue(st.last_trade_time)
    /\ now - Value(st.last_trade_time) < cfg.cooldown_seconds

\* The amount execute_sell takes as held.
HeldAmount == IF cfg.dry_run THEN st.sim_btc_balance ELSE st.btc_amount

\* C1: in live mode, an execute() that fails because the submission
\* failed, the order was canceled or expired, or the confirmation budget
\* ran out returns failure and leaves TradingState and the state file as
\* they were immediately before the call.
C1_FailedExecuteLeavesState ==
    (/\ ~cfg.dry_run
     /\ ghost.cause \in {"submit_failed", "canceled", "expired", "timeout"})
    => /\ ghost.result = "fail"
       /\ HasValue(ghost.pre)
       /\ st = Value(ghost.pre).st
       /\ file = Value(ghost.pre).file

\* A live BUY whose confirmation budget ran out.
C1_Witness ==
    /\ ~cfg.dry_run
    /\ pc = "sleep"
    /\ ctx.decision = "BUY"
    /\ ghost.cause = "timeout"

\* C2: in live mode, a cycle whose order was accepted exchange-side while
\* the submission reply was lost keeps the believed position (mode LONG
\* or FLAT) in agreement with the exchange position (base asset held or
\* not): agreement before execute() is agreement after it.
C2_NoDesyncOnLostReply ==
    [][ (/\ ~cfg.dry_run
         /\ pc = "decided"
         /\ pc' = "sleep"
         /\ (st.mode = "LONG") <=> (exch.btc > 0))
        => ((st'.mode = "LONG") <=> (exch'.btc > 0)) ]_vars

\* C3: the position size btc_amount is 0 if and only if mode is FLAT.
C3_SizeZeroIffFlat == (st.btc_amount = 0) <=> (st.mode = "FLAT")

\* C4: mode LONG implies entry_price is present.
C4_LongHasEntryPrice == (st.mode = "LONG") => HasValue(st.entry_price)

\* A LONG position that reconciliation found at the exchange, with the
\* entry price it fell back to.
C4_Witness ==
    /\ ~cfg.dry_run
    /\ pc = "loop"
    /\ now = 0
    /\ ghost.recon = "ok"
    /\ st.mode = "LONG"
    /\ HasValue(st.entry_price)
    /\ ~HasValue(st.entry_time)

\* C5: evaluate() returns BUY only in FLAT and SELL only in LONG, and
\* after startup the mode changes only FLAT -> LONG on a BUY fill and
\* LONG -> FLAT on a SELL fill; a SELL fill leaves LONG or FLAT.
C5_ModeTransitions ==
    /\ [](pc = "decided" =>
            /\ (ctx.decision = "BUY" => st.mode = "FLAT")
            /\ (ctx.decision = "SELL" => st.mode = "LONG"))
    /\ [][ pc # "start" =>
            /\ (st'.mode # st.mode => FillStep)
            /\ (FillStep /\ ctx.decision = "BUY" =>
                    st.mode = "FLAT" /\ st'.mode = "LONG")
            /\ (FillStep /\ ctx.decision = "SELL" => st.mode = "LONG") ]_vars

\* A partial exit that left the position LONG.
C5_Witness ==
    /\ pc = "sleep"
    /\ ghost.result = "ok"
    /\ ctx.decision = "SELL"
    /\ ctx.is_partial_exit
    /\ st.mode = "LONG"
    /\ st.partial_take_profit_done

\* C6 as stated: a call of evaluate() leaves every TradingState field
\* unchanged.
C6_EvaluateOnlyReads == [][ EvaluateStep => st' = st ]_vars

\* C6: a call of evaluate() leaves every TradingState field unchanged
\* except trades_today and the trade date (date rollover) and
\* trailing_stop_price (the ratchet); the state changes only in
\* evaluate(), in execute() on a confirmed or simulated fill, and at
\* startup.
C6_EvaluateFrame ==
    /\ [][ EvaluateStep =>
             st' = [st EXCEPT
                      !.trades_today = st'.trades_today,
                      !.trades_date_yyyy_mm_dd = st'.trades_date_yyyy_mm_dd,
                      !.trailing_stop_price = st'.trailing_stop_price] ]_vars
    /\ [][ st' # st => (EvaluateStep \/ FillStep \/ pc = "start") ]_vars

\* An evaluate() that returned having moved the trailing stop off the
\* value the buy fill stored.
C6_Witness ==
    /\ pc = "decided"
    /\ st.mode = "LONG"
    /\ HasValue(st.entry_time)
    /\ HasValue(st.trailing_stop_price)
    /\ st.trailing_stop_price # InitialTrailingStop(cfg, Value(st.entry_price))

\* C7: while mode stays LONG, a trailing_stop_price that is set stays set
\* and never decreases.
C7_TrailingStopNeverDecreases ==
    [][ (/\ st.mode = "LONG"
         /\ st'.mode = "LONG"
         /\ HasValue(st.trailing_stop_price))
        => /\ HasValue(st'.trailing_stop_price)
           /\ Value(st'.trailing_stop_price) >= Value(st.trailing_stop_price) ]_vars

\* A cycle in LONG that ended NOOP on a price whose candidate stop lies
\* below the stored stop.
C7_Witness ==
    /\ pc = "decided"
    /\ st.mode = "LONG"
    /\ ctx.decision = "NOOP"
    /\ ctx.fetched
    /\ HasValue(st.trailing_stop_price)
    /\ ctx.current_price * (Scale - cfg.trailing_stop_pct)
         < Value(st.trailing_stop_price)

\* C8: trades_today never exceeds max_trades_per_day; evaluate() never
\* returns BUY or SELL at the cap; each fill adds exactly one.
C8_DailyCap ==
    /\ [](st.trades_today <= cfg.max_trades_per_day)
    /\ [](pc = "decided" /\ ctx.decision \in {"BUY", "SELL"}
            => st.trades_today < cfg.max_trades_per_day)
    /\ [][ FillStep => st'.trades_today = st.trades_today + 1 ]_vars

\* A cycle blocked at the cap.
C8_Witness ==
    /\ pc = "decided"
    /\ ctx.decision = "BLOCKED"
    /\ ctx.decision_reason = "max_trades"
    /\ st.trades_today = cfg.max_trades_per_day

\* C9 as stated: inside the cooldown evaluate() returns BLOCKED with the
\* remaining seconds as its reason.
C9_CooldownAlwaysReported ==
    (pc = "decided" /\ InsideCooldown)
    => /\ ctx.decision = "BLOCKED"
       /\ ctx.decision_reason = "cooldown"
       /\ ctx.cooldown_remaining
            = cfg.cooldown_seconds - (now - Value(st.last_trade_time))

\* C9: inside the cooldown evaluate() returns BLOCKED, and when the price
\* fetch gave a fresh price the reason is the cooldown with remaining =
\* cooldown_seconds - elapsed; two consecutive fills are at least
\* cooldown_seconds apart.
C9_Cooldown ==
    /\ [](pc = "decided" /\ InsideCooldown =>
            /\ ctx.decision = "BLOCKED"
            /\ ctx.fetched =>
                 /\ ctx.decision_reason = "cooldown"
                 /\ ctx.cooldown_remaining
                      = cfg.cooldown_seconds - (now - Value(st.last_trade_time)))
    /\ [][ (HasValue(st.last_trade_time) /\ st'.last_trade_time # st.last_trade_time)
           => /\ HasValue(st'.last_trade_time)
              /\ Value(st'.last_trade_time) - Value(st.last_trade_time)
                   >= cfg.cooldown_seconds ]_vars

\* A cycle blocked one second into a longer cooldown.
C9_Witness ==
    /\ pc = "decided"
    /\ ctx.decision_reason = "cooldown"
    /\ ctx.cooldown_remaining = cfg.cooldown_seconds - 1
    /\ ctx.cooldown_remaining > 0

\* current_price at or below the stop-loss level of the position.
AtOrBelowStopLoss ==
    LET entry == Value(st.entry_price)
        a     == Atr(cfg, hist)
    IN  IF cfg.use_dynamic_tp_sl /\ a.sum > 0
        THEN ctx.current_price * a.n <= entry * a.n - a.sum * cfg.sl_atr_mult
        ELSE ctx.current_price * Scale <= entry * (Scale - cfg.stop_loss_pct)

\* C10: in LONG with an entry price, a fetched price at or below the
\* stop-loss level and no blocking condition, evaluate() returns SELL, not
\* a partial exit, and the sell takes the whole held amount.
C10_StopLossSellsAll ==
    (/\ pc = "decided"
     /\ st.mode = "LONG"
     /\ HasValue(st.entry_price)
     /\ ctx.fetched
     /\ ~InsideCooldown
     /\ st.trades_today < cfg.max_trades_per_day
     /\ failures < cfg.max_consecutive_failures
     /\ AtOrBelowStopLoss)
    => /\ ctx.decision = "SELL"
       /\ ~ctx.is_partial_exit
       /\ BtcToSell(cfg, st, ctx) = HeldAmount

\* A SELL decided by the stop-loss alone.
C10_Witness ==
    /\ pc = "decided"
    /\ ctx.decision = "SELL"
    /\ ctx.decision_reason = "stop_loss"
    /\ HeldAmount > 0

\* No blocking condition of check_blocking_conditions holds.
NoBlockingCondition ==
    /\ ~InsideCooldown
    /\ st.trades_today < cfg.max_trades_per_day
    /\ failures < cfg.max_consecutive_failures

\* The take-profit level is the fixed one, entry x (1 + take_profit_pct).
FixedLevels == ~(cfg.use_dynamic_tp_sl /\ Atr(cfg, hist).sum > 0)

\* evaluate() returned in LONG, with an entry price, on a fetched price at
\* or above the fixed take-profit level, no blocking condition holding.
AtFixedTakeProfit ==
    /\ pc = "decided"
    /\ st.mode = "LONG"
    /\ HasValue(st.entry_price)
    /\ ctx.fetched
    /\ NoBlockingCondition
    /\ FixedLevels
    /\ ctx.current_price * Scale
         >= Value(st.entry_price) * (Scale + cfg.take_profit_pct)

\* The exit rules check_exit_condition tries before the take-profit.
PartialTakeProfitDue ==
    /\ ~st.partial_take_profit_done
    /\ cfg.partial_tp_pct > 0
    /\ ctx.current_price * Scale
         >= Value(st.entry_price) * (Scale + cfg.partial_tp_pct)

TrailingStopDue ==
    /\ cfg.trailing_stop_pct > 0
    /\ HasValue(st.trailing_stop_price)
    /\ ctx.current_price * Scale <= Value(st.trailing_stop_price)

TimeExitDue ==
    /\ cfg.max_hold_seconds > 0
    /\ HasValue(st.entry_time)
    /\ now - Value(st.entry_time) >= cfg.max_hold_seconds

\* C11 as stated: at or above the fixed take-profit level evaluate()
\* returns SELL with the take-profit reason.
C11_TakeProfitReason ==
    AtFixedTakeProfit
    => ctx.decision = "SELL" /\ ctx.decision_reason = "take_profit"

\* C11: at or above the fixed take-profit level evaluate() returns SELL;
\* the reason is that of the first exit rule that fires, in the order
\* partial take-profit, trailing stop, time exit, take-profit, so it is
\* the take-profit reason when none of the three earlier rules fires.
C11_TakeProfitSells ==
    AtFixedTakeProfit
    => /\ ctx.decision = "SELL"
       /\ ctx.decision_reason =
            CASE PartialTakeProfitDue -> "partial_take_profit"
              [] TrailingStopDue      -> "trailing_stop"
              [] TimeExitDue          -> "time_exit"
              [] OTHER                -> "take_profit"

\* A SELL by the fixed take-profit with the partial take-profit enabled
\* and already taken.
C11_Witness ==
    /\ AtFixedTakeProfit
    /\ ctx.decision_reason = "take_profit"
    /\ cfg.partial_tp_pct > 0
    /\ st.partial_take_profit_done

AtOrBelowRebuyPrice ==
    ctx.current_price * Scale <= Value(st.exit_price) * (Scale - cfg.rebuy_reset_pct)

\* C13: FLAT with an exit price recorded, evaluate() returns BUY only at
\* or below the rebuy price, and NOOP above it when nothing blocks (no
\* blocking condition, tradeable sizing, market filters passed).
C13_RebuyOnlyAfterReset ==
    (pc = "decided" /\ st.mode = "FLAT" /\ HasValue(st.exit_price))
    => /\ ctx.decision = "BUY" => AtOrBelowRebuyPrice
       /\ (/\ ctx.fetched
           /\ NoBlockingCondition
           /\ ctx.sizing.can_trade
           /\ check_market_conditions(cfg, hist, ctx.current_price) = ""
           /\ ~AtOrBelowRebuyPrice)
          => ctx.decision = "NOOP" /\ ctx.decision_reason = "waiting_for_reset"

\* A NOOP waiting for the price to reset.
C13_Witness ==
    /\ pc = "decided"
    /\ st.mode = "FLAT"
    /\ HasValue(st.exit_price)
    /\ ctx.decision = "NOOP"
    /\ ctx.decision_reason = "waiting_for_reset"
    /\ ~AtOrBelowRebuyPrice

\* A call of evaluate() in LONG mode with no entry price.
EvaluateWithoutEntry ==
    EvaluateStep /\ st.mode = "LONG" /\ ~HasValue(st.entry_price)

\* C14 as stated: LONG with entry_price absent, evaluate() returns NOOP or
\* BLOCKED and changes no state field.
C14_MissingEntryChangesNothing ==
    [][ EvaluateWithoutEntry
        => ctx'.decision \in {"NOOP", "BLOCKED"} /\ st' = st ]_vars

\* C14: LONG with entry_price absent, evaluate() never returns SELL: it
\* returns BLOCKED for a failed or stale price or a blocking condition and
\* NOOP otherwise, and changes no state field except trades_today and the
\* trade date, which the date rollover resets on a new day.
C14_MissingEntryNeverSells ==
    [][ EvaluateWithoutEntry
        => /\ ctx'.decision \in {"NOOP", "BLOCKED"}
           /\ ctx'.decision = "NOOP" <=> ctx'.decision_reason = "missing_entry_price"
           /\ ctx'.decision = "BLOCKED"
                => ctx'.decision_reason \in
                     {"price_fetch_failed", "price_stale",
                      "cooldown", "max_trades", "api_failures"}
           /\ st' = IF st.trades_date_yyyy_mm_dd = Today(now) THEN st
                    ELSE [st EXCEPT !.trades_today = 0,
                                    !.trades_date_yyyy_mm_dd = Today(now)] ]_vars

\* evaluate() has returned NOOP for a LONG state with no entry price, at a
\* price above every take-profit level of a well-formed position.
C14_Witness ==
    /\ pc = "decided"
    /\ st.mode = "LONG"
    /\ ~HasValue(st.entry_price)
    /\ ctx.decision = "NOOP"
    /\ ctx.decision_reason = "missing_entry_price"
    /\ \A p \in Prices : p <= ctx.current_price

\* The equity calculate_sizing starts from.
SizedEquity ==
    IF cfg.dry_run
    THEN st.sim_cad_balance
           + (IF st.mode = "FLAT" THEN 0
              ELSE (st.sim_btc_balance * ctx.current_price) \div Scale)
    ELSE exch.cad + (exch.btc * ctx.current_price) \div Scale

\* calculate_sizing has run on known balances.
SizingComputed ==
    /\ \/ pc = "sized"
       \/ pc = "decided" /\ ctx.fetched /\ ctx.sizing # DefaultSizing
    /\ ctx.sizing.block_reason # "balance_fetch_failed"

\* C15: with a positive stop-loss percentage, position size is the smaller
\* of raw size (equity x risk / stop-loss) and max size (equity x
\* max_position_pct), hence at most either.
C15_PositionIsMinOfRawAndMax ==
    (SizingComputed /\ cfg.stop_loss_pct > 0)
    => LET z    == ctx.sizing
           risk == (SizedEquity * cfg.risk_per_trade_pct) \div Scale
       IN  /\ z.equity_cad = SizedEquity
           /\ z.raw_position_cad = (risk * Scale) \div cfg.stop_loss_pct
           /\ z.max_position_cad = (SizedEquity * cfg.max_position_pct) \div Scale
           /\ z.position_cad <= z.raw_position_cad
           /\ z.position_cad <= z.max_position_cad
           /\ z.position_cad \in {z.raw_position_cad, z.max_position_cad}

\* A sizing whose raw size exceeds the cap, the position being the cap.
C15_Witness ==
    /\ SizingComputed
    /\ cfg.stop_loss_pct > 0
    /\ ctx.sizing.equity_cad >= 1000
    /\ ctx.sizing.raw_position_cad > ctx.sizing.max_position_cad
    /\ ctx.sizing.position_cad = ctx.sizing.max_position_cad

\* C16: with stop_loss_pct = 0 the raw and the position size are 0 and
\* sizing reports not-tradeable, whatever the balances; evaluate() in FLAT
\* mode never returns BUY, and returns BLOCKED once the price is fetched.
C16_ZeroStopLossNotTradeable ==
    (cfg.stop_loss_pct = 0 /\ pc \in {"sized", "decided"})
    => /\ ctx.sizing.raw_position_cad = 0
       /\ ctx.sizing.position_cad = 0
       /\ ctx.sizing.btc_to_buy = 0
       /\ ~ctx.sizing.can_trade
       /\ (pc = "decided" /\ st.mode = "FLAT")
            => /\ ctx.decision # "BUY"
               /\ ctx.fetched => ctx.decision = "BLOCKED"

\* evaluate() has returned BLOCKED in FLAT mode with stop_loss_pct = 0 and
\* a balance that would pay for a position.
C16_Witness ==
    /\ cfg.stop_loss_pct = 0
    /\ pc = "decided"
    /\ st.mode = "FLAT"
    /\ ctx.fetched
    /\ ctx.sizing.equity_cad >= 1000
    /\ ctx.decision = "BLOCKED"
    /\ ctx.decision_reason = "position_too_small"

\* A caller leaves the gate: its request starts.
RequestStarts ==
    \E t \in client.callers :
        client.th[t].pc = "gate" /\ client'.th[t].pc = "flight"

\* A request completes and its client operation returns.
OperationReturns ==
    \E t \in client.callers :
        client.th[t].pc = "flight" /\ client'.th[t].pc = "idle"

\* C17: with the main thread the only caller, a request starts no sooner
\* than min_delay plus the current backoff after the previous request
\* completed.
C17_DelaySinceCompletion ==
    [][ (RequestStarts /\ client.callers = {1} /\ HasValue(client.last_done))
        => client'.last_request_time - Value(client.last_done)
             >= client.params.min_delay_ms + client.current_backoff_ms ]_vars

\* C18: at most one request is in flight at any time.
C18_OneRequestInFlight ==
    Cardinality({ t \in client.callers : client.th[t].pc = "flight" }) <= 1

\* C19: with the main thread the only caller, a failed operation moves the
\* backoff to initial_backoff if it was 0 and to min(2 x backoff,
\* max_backoff) otherwise, plus a jitter of at most half of that; a
\* successful one leaves backoff and failure counter at 0; the backoff
\* never exceeds 1.5 x max_backoff.
C19_BackoffEvolution ==
    [][ (OperationReturns /\ client.callers = {1})
        => /\ IF client'.failed_in_a_row = 0
              THEN client'.current_backoff_ms = 0 /\ failures' = 0
              ELSE LET b == IF client.current_backoff_ms = 0
                            THEN client.params.initial_backoff_ms
                            ELSE Min2(2 * client.current_backoff_ms,
                                      client.params.max_backoff_ms)
                   IN  /\ client'.current_backoff_ms >= b
                       /\ client'.current_backoff_ms <= b + b \div 2
           /\ 2 * client'.current_backoff_ms <= 3 * client.params.max_backoff_ms ]_vars

\* C20: with the main thread the only caller, the failure counter is the
\* number of client operations that failed since the last success.
C20_CounterCountsFailures ==
    client.callers = {1} => failures = client.failed_in_a_row

\* C22: wait_for_fill makes at most max_attempts queries; a query that
\* reports closed ends it with success, one that reports canceled or
\* expired ends it with failure at once, any other status or a failed
\* query leads to another poll while attempts are left and to failure
\* when they are spent.
C22_WaitForFill ==
    [][ pc = "polling"
        => LET order == exch.order[1]
               i     == order.queries + 1
           IN  /\ i <= MaxAttempts
               /\ exch'.order[1].queries = i
               /\ \E q \in {"http_fail", "api_error", "not_found", order.status} :
                    /\ failures' = AfterQuery(failures, q)
                    /\ CASE q = "closed" ->
                              /\ pc' = "sleep"
                              /\ ghost'.result = "ok"
                         [] q \in {"canceled", "expired"} ->
                              /\ pc' = "sleep"
                              /\ ghost'.result = "fail" /\ ghost'.cause = q
                              /\ st' = st
                         [] OTHER ->
                              IF i < MaxAttempts
                              THEN pc' = "polling" /\ ghost' = ghost /\ st' = st
                              ELSE /\ pc' = "sleep"
                                   /\ ghost'.result = "fail" /\ ghost'.cause = "timeout"
                                   /\ st' = st ]_vars

\* wait_for_fill has returned success on its last attempt, the earlier
\* queries having failed or found the order open.
C22_Witness ==
    /\ pc = "sleep"
    /\ ghost.result = "ok"
    /\ ghost.cause = "closed"
    /\ exch.order # NoOrder
    /\ exch.order[1].queries = MaxAttempts

\* C23: a reconciliation whose balance fetch succeeds leaves mode LONG,
\* the live amount and an entry price (the one it had, or else the
\* current price) when the account holds base asset, and mode FLAT with
\* amount 0 otherwise; the state file then holds the reconciled state.
C23_ReconciledState ==
    [][ (pc = "start" /\ ghost'.recon = "ok")
        => /\ IF exch.btc > 0
              THEN /\ st'.mode = "LONG"
                   /\ st'.btc_amount = exch.btc
                   /\ HasValue(st'.entry_price)
                   /\ IF HasValue(st.entry_price)
                      THEN st'.entry_price = st.entry_price
                      ELSE Value(st'.entry_price) \in Prices
              ELSE st'.mode = "FLAT" /\ st'.btc_amount = 0
           /\ file' = save(st') ]_vars

\* A reconciliation has turned a state loaded as LONG into FLAT and
\* written it.
C23_Witness ==
    /\ pc = "loop"
    /\ ghost.recon = "ok"
    /\ st.mode = "FLAT"
    /\ st.btc_amount = 0
    /\ st.sim_btc_balance > 0
    /\ file # NoFile
    /\ file.mode = "FLAT"

\* C24: in live mode, past startup, reconciliation has run and applied the
\* live balances.
C24_ReconciledBeforeLoop ==
    (~cfg.dry_run /\ pc # "start") => ghost.recon = "ok"

\* A step of the main thread out of startup or the top of the loop.
MainStepFromTop == pc \in {"start", "loop"} /\ pc' # pc /\ pc' # "hung"

\* The process has ended: nothing moves any more.
EndedStaysEnded ==
    pc \in {"exited", "stopped"}
    => pc' = pc /\ st' = st /\ file' = file /\ exch' = exch /\ ctx' = ctx

\* C25 as stated: with the kill-switch file present at startup or at the
\* start of a cycle the process ends without evaluating or ordering and
\* the state is saved; with the file absent, startup and the cycle
\* proceed.
C25_KillSwitchSavesOrProceeds ==
    [][ /\ EndedStaysEnded
        /\ MainStepFromTop
             => IF env.kill_switch
                THEN /\ pc' \in {"exited", "stopped"}
                     /\ file' = save(st)
                     /\ st' = st /\ exch' = exch /\ ctx' = ctx
                ELSE pc' = IF pc = "start" THEN "loop" ELSE "decided" ]_vars

\* C25: with the kill-switch file present at startup the process exits
\* before it loads the state and writes nothing; present at the start of
\* a cycle, the loop exits without evaluating or ordering and the final
\* save writes the state; nothing happens afterwards.  With the file
\* absent, startup proceeds, and a cycle proceeds unless the failure
\* counter is at its ceiling, in which case the loop exits the same way.
C25_KillSwitch ==
    [][ /\ EndedStaysEnded
        /\ MainStepFromTop
             => CASE pc = "start" /\ env.kill_switch ->
                       /\ pc' = "exited"
                       /\ file' = file
                       /\ st' = st /\ exch' = exch /\ ctx' = ctx
                  [] pc = "start" /\ ~env.kill_switch ->
                       pc' = "loop"
                  [] pc = "loop" /\ (env.kill_switch
                                     \/ failures >= cfg.max_consecutive_failures) ->
                       /\ pc' = "stopped"
                       /\ file' = save(st)
                       /\ st' = st /\ exch' = exch /\ ctx' = ctx
                  [] OTHER ->
                       pc' = "decided" ]_vars

\* The kill switch has stopped the loop with a position open, and the
\* state file holds that position.
C25_Witness ==
    /\ pc = "stopped"
    /\ env.kill_switch
    /\ failures < cfg.max_consecutive_failures
    /\ st.mode = "LONG"
    /\ file = save(st)

\* C26: with the failure counter at or above max_consecutive_failures at
\* the start of a cycle, the main loop ends without evaluating or
\* ordering; the final save writes the in-memory state, unchanged; nothing
\* happens afterwards.
C26_FailureCeilingHalts ==
    [][ /\ pc = "stopped" => pc' = pc /\ st' = st /\ file' = file /\ exch' = exch
        /\ (pc = "loop" /\ failures >= cfg.max_consecutive_failures)
             => /\ pc' = "stopped"
                /\ st' = st
                /\ file' = save(st)
                /\ exch' = exch /\ ctx' = ctx /\ failures' = failures ]_vars

\* The loop has halted on the failure ceiling in a live run that had
\* placed an order before.
C26_Witness ==
    /\ pc = "stopped"
    /\ failures >= cfg.max_consecutive_failures
    /\ exch.accepted > 0
    /\ file = save(st)

\* C29: a shutdown signal delivered while execute() is placing an order or
\* polling for its fill only clears g_running: the main thread stays where
\* it is, and state, state file and order are untouched by the delivery.
C29_SignalDoesNotInterruptExecute ==
    [][ (env'.signals # env.signals /\ pc \in {"decided", "polling"})
        => /\ pc' = pc
           /\ ~env'.g_running
           /\ st' = st /\ file' = file /\ exch' = exch ]_vars

\* C27: a state saved completely and loaded again equals the state that
\* was saved, on every field.
C27_LoadOfSaveIsIdentity ==
    (pc = "loaded" /\ file = save(ghost.pre[1].st))
    => st = ghost.pre[1].st

\* C28: after a crash at any point of save(), load() yields the complete
\* previous state or the complete new state.
C28_SaveIsAtomic ==
    pc = "loaded"
    => \/ st = load(ghost.pre[1].file, Today(now))
       \/ st = load(save(ghost.pre[1].st), Today(now))

\* C21: within one session the nonces of successive authenticated
\* requests are strictly increasing.
C21_NoncesStrictlyIncreasing ==
    \A i, j \in DOMAIN env.nonces :
        i < j => env.nonces[i].nonce < env.nonces[j].nonce

\* evaluate() returned BLOCKED with reason r.
BlockedFor(r) == ctx.decision = "BLOCKED" /\ ctx.decision_reason = r

\* The spread of the quote the ticker reply carried exceeds max_spread_pct
\* of its mid price.
QuotedSpreadTooWide ==
    /\ cfg.max_spread_pct > 0
    /\ env.quote.bid > 0
    /\ env.quote.ask >= env.quote.bid
    /\ (env.quote.ask - env.quote.bid) * 2 * Scale
         > cfg.max_spread_pct * (env.quote.bid + env.quote.ask)

\* C30: after a fresh price was fetched, the decision and reason of
\* evaluate() are those of the earliest condition that holds: cooldown,
\* daily cap, then in FLAT sizing not tradeable, spread too wide,
\* volatility too low, trend filter, and only then the entry condition.
C30_FirstApplicableWins ==
    (pc = "decided" /\ ctx.fetched)
    => IF InsideCooldown THEN BlockedFor("cooldown")
       ELSE IF st.trades_today >= cfg.max_trades_per_day THEN BlockedFor("max_trades")
       ELSE IF st.mode # "FLAT" THEN ctx.decision \in {"SELL", "NOOP"}
       ELSE IF ~ctx.sizing.can_trade THEN BlockedFor(ctx.sizing.block_reason)
       ELSE IF QuotedSpreadTooWide THEN BlockedFor("spread_too_wide")
       ELSE IF ~passes_volatility_filter(cfg, hist, ctx.current_price)
            THEN BlockedFor("volatility_too_low")
       ELSE IF ~passes_trend_filter(cfg, hist) THEN BlockedFor("trend_filter")
       ELSE ctx.decision \in {"BUY", "NOOP"}

\* evaluate() returned in LONG, with an entry price, on a fetched price,
\* no blocking condition holding: check_exit_condition ran its rules.
ExitRulesTried ==
    /\ pc = "decided"
    /\ st.mode = "LONG"
    /\ HasValue(st.entry_price)
    /\ ctx.fetched
    /\ NoBlockingCondition

\* The take-profit and stop-loss levels of this cycle are reached: the
\* ATR-based ones when use_dynamic_tp_sl and the ATR is positive, else the
\* fixed ones.
TakeProfitDue ==
    LET a == Atr(cfg, hist)
        entry == Value(st.entry_price)
    IN  IF cfg.use_dynamic_tp_sl /\ a.sum > 0
        THEN ctx.current_price * a.n >= entry * a.n + a.sum * cfg.tp_atr_mult
        ELSE ctx.current_price * Scale >= entry * (Scale + cfg.take_profit_pct)

StopLossDue ==
    LET a == Atr(cfg, hist)
        entry == Value(st.entry_price)
    IN  IF cfg.use_dynamic_tp_sl /\ a.sum > 0
        THEN ctx.current_price * a.n <= entry * a.n - a.sum * cfg.sl_atr_mult
        ELSE ctx.current_price * Scale <= entry * (Scale - cfg.stop_loss_pct)

\* The reason of the earliest exit rule that holds, "holding" when none.
EarliestExitRule ==
    IF PartialTakeProfitDue THEN "partial_take_profit"
    ELSE IF TrailingStopDue THEN "trailing_stop"
    ELSE IF TimeExitDue THEN "time_exit"
    ELSE IF TakeProfitDue THEN "take_profit"
    ELSE IF StopLossDue THEN "stop_loss"
    ELSE "holding"

\* C31: in LONG the exit rules are tried in the order partial take-profit,
\* trailing stop, time exit, take-profit, stop-loss; reason, partial flag
\* and partial sell volume are those of the earliest rule that holds, and
\* the decision is NOOP when none holds.
C31_ExitRuleOrder ==
    ExitRulesTried
    => /\ ctx.decision_reason = EarliestExitRule
       /\ ctx.decision = IF EarliestExitRule = "holding" THEN "NOOP" ELSE "SELL"
       /\ ctx.is_partial_exit = (EarliestExitRule = "partial_take_profit")
       /\ ctx.sell_volume =
            IF EarliestExitRule = "partial_take_profit"
            THEN (HeldAmount * cfg.partial_tp_sell_pct) \div Scale
            ELSE 0

\* A partial take-profit decided while the take-profit level is reached
\* as well.
C31_Witness ==
    /\ ExitRulesTried
    /\ ctx.decision_reason = "partial_take_profit"
    /\ TakeProfitDue

\* execute() is running on the decision in ctx and changes the state: a
\* fill is applied.
FillApplied == pc \in {"decided", "polling"} /\ st' # st

\* C32: a partial exit fill that leaves a residual amount sets
\* partial_take_profit_done and keeps the mode LONG; while the flag is set
\* no evaluation decides a partial exit; the flag is cleared by a BUY fill
\* only.
C32_PartialOncePerPosition ==
    [][ /\ (FillApplied /\ ctx.decision = "SELL" /\ ctx.is_partial_exit
               /\ st'.btc_amount > 0)
           => (st'.partial_take_profit_done /\ st'.mode = "LONG")
        /\ (st.partial_take_profit_done /\ pc = "loop" /\ pc' = "decided")
           => (~ctx'.is_partial_exit
               /\ ctx'.decision_reason # "partial_take_profit")
        /\ (st.partial_take_profit_done /\ ~st'.partial_take_profit_done)
           => (FillApplied /\ ctx.decision = "BUY" /\ st.mode = "FLAT"
               /\ st'.mode = "LONG" /\ st'.entry_time = Some(now))
      ]_vars

\* A later cycle of a position whose partial take-profit was taken, the
\* price at or above the partial take-profit level again.
C32_Witness ==
    /\ ExitRulesTried
    /\ st.partial_take_profit_done
    /\ st.btc_amount > 0
    /\ cfg.partial_tp_pct > 0
    /\ ctx.current_price * Scale
         >= Value(st.entry_price) * (Scale + cfg.partial_tp_pct)
    /\ ~ctx.is_partial_exit

\* The volume the claim gives the sell decided in ctx.
ClaimedSellVolume ==
    IF ctx.is_partial_exit
    THEN (HeldAmount * cfg.partial_tp_sell_pct) \div Scale
    ELSE HeldAmount

\* C33: the volume a decided SELL sells (seen in a simulated fill as the
\* decrease of the simulated base balance) is held amount x
\* partial_tp_sell_pct for a partial take-profit and the whole held amount
\* for any other exit, and never more than the held amount.
C33_SellVolume ==
    [][ (pc = "decided" /\ ctx.decision = "SELL" /\ cfg.dry_run /\ pc' = "sleep")
        => /\ st.sim_btc_balance - st'.sim_btc_balance = ClaimedSellVolume
           /\ st.sim_btc_balance - st'.sim_btc_balance <= HeldAmount
      ]_vars

\* The last n entries of s, all of s when it has fewer.
LastOf(s, n) ==
    LET k == Min2(n, Len(s))
    IN  [i \in 1..k |-> s[Len(s) - k + i]]

\* The true ranges of the samples s: |s[i+1] - s[i]|.
TrueRanges(s) ==
    [i \in 1..(Len(s) - 1) |->
        IF s[i + 1] >= s[i] THEN s[i + 1] - s[i] ELSE s[i] - s[i + 1]]

\* C34: after any sequence of samples the price window is the last
\* trend_window_long samples and the true-range window the last atr_window
\* true ranges |price_t - price_(t-1)|, in insertion order; the averages
\* are unavailable (zero) until trend_window_long samples are held, and
\* then are those of the last trend_window_long and trend_window_short
\* samples.
C34_RollingWindows ==
    LET all == env.samples
        m   == Sma(cfg, hist)
    IN  /\ Len(hist.price_history) <= cfg.trend_window_long
        /\ Len(hist.tr_history) <= cfg.atr_window
        /\ hist.price_history = LastOf(all, cfg.trend_window_long)
        /\ hist.tr_history = LastOf(TrueRanges(all), cfg.atr_window)
        /\ m.avail = (Len(all) >= cfg.trend_window_long)
        /\ ~m.avail => (m.short_sum = 0 /\ m.long_sum = 0)
        /\ m.avail =>
             /\ m.long_sum = SumSeq(LastOf(all, cfg.trend_window_long))
             /\ m.short_sum = SumSeq(LastOf(all, cfg.trend_window_short))

\* Both windows have evicted: more samples than the long window holds and
\* more true ranges than the ATR window holds, the oldest sample unlike
\* the newest.
C34_Witness ==
    /\ Len(env.samples) > cfg.trend_window_long
    /\ Len(env.samples) - 1 > cfg.atr_window
    /\ cfg.trend_window_long > 1
    /\ env.samples[1] # env.samples[Len(env.samples)]
    /\ hist.tr_history # << >>

\* execute() runs in simulation mode on the BUY or SELL decided in ctx.
SimulatedExecute ==
    /\ pc = "decided"
    /\ cfg.dry_run
    /\ ctx.decision \in {"BUY", "SELL"}
    /\ pc' = "sleep"

\* The volume execute_sell sells of the simulated base balance.
SimulatedSellVolume ==
    IF ctx.sell_volume > 0 /\ ctx.sell_volume < st.sim_btc_balance
    THEN ctx.sell_volume
    ELSE st.sim_btc_balance

\* The simulated fill of the decision in ctx is applied and persisted:
\* a buy debits volume x price and credits the volume, a sell credits
\* volume x price less the round-trip fee and debits the volume; the
\* exchange sees nothing.
SimulatedFillApplied ==
    LET price == ctx.current_price
        buy   == ctx.sizing.btc_to_buy
        sell  == SimulatedSellVolume
        gross == (sell * price) \div Scale
        fee   == (gross * cfg.sim_fee_pct_roundtrip) \div Scale
    IN  /\ ghost'.result = "ok"
        /\ file' = save(st')
        /\ exch' = exch
        /\ ctx.decision = "BUY" =>
             /\ st'.sim_cad_balance = st.sim_cad_balance - (buy * price) \div Scale
             /\ st'.sim_btc_balance = st.sim_btc_balance + buy
        /\ ctx.decision = "SELL" =>
             /\ st'.sim_cad_balance = st.sim_cad_balance + gross - fee
             /\ st'.sim_btc_balance = st.sim_btc_balance - sell

\* C35 as stated: in simulation mode execute() always succeeds and applies
\* the fill.
C35_SimulationAlwaysSucceeds ==
    [][ SimulatedExecute => SimulatedFillApplied ]_vars

\* C35: in simulation mode execute() succeeds and applies the fill (buy:
\* debit volume x price, no fee; sell: credit volume x price x (1 - fee)),
\* persists the state and places no order, unless it is a SELL with no
\* simulated base balance, which fails and changes nothing.
C35_SimulatedFill ==
    [][ SimulatedExecute
        => IF ctx.decision = "SELL" /\ st.sim_btc_balance <= 0
           THEN ghost'.result = "fail" /\ st' = st /\ file' = file /\ exch' = exch
           ELSE SimulatedFillApplied
      ]_vars

\* A simulated sell was applied with a fee charged.
C35_Witness ==
    /\ pc = "sleep"
    /\ cfg.dry_run
    /\ ctx.decision = "SELL"
    /\ ghost.result = "ok"
    /\ st.last_trade_time = Some(now)
    /\ st.exit_price = Some(ctx.current_price)
    /\ st.mode = "FLAT"
    /\ st.sim_btc_balance = 0
    /\ st.sim_cad_balance > 0
    /\ cfg.sim_fee_pct_roundtrip > 0

\* C36: in LONG, inside the cooldown that follows the last fill, an
\* evaluation returns BLOCKED whatever the price (with the cooldown reason
\* once the price was fetched) and leaves the trailing stop as it was.
C36_CooldownGatesExits ==
    [][ (pc = "loop" /\ pc' = "decided" /\ st.mode = "LONG"
           /\ HasValue(st.last_trade_time)
           /\ now - Value(st.last_trade_time) < cfg.cooldown_seconds)
        => /\ ctx'.decision = "BLOCKED"
           /\ ctx'.fetched => ctx'.decision_reason = "cooldown"
           /\ st'.trailing_stop_price = st.trailing_stop_price
           /\ st'.mode = "LONG"
      ]_vars

\* Inside the cooldown after a BUY fill of this run, the price at or below
\* the stop-loss level, and the evaluation BLOCKED.
C36_Witness ==
    /\ pc = "decided"
    /\ st.mode = "LONG"
    /\ HasValue(st.entry_price)
    /\ HasValue(st.entry_time)
    /\ st.entry_time = st.last_trade_time
    /\ InsideCooldown
    /\ ctx.fetched
    /\ StopLossDue
    /\ ctx.decision = "BLOCKED"

\* C37: in LONG with trades_today at max_trades_per_day on the current
\* trade date an evaluation returns BLOCKED whatever the price (with the
\* daily-cap reason once the price was fetched outside the cooldown); on a
\* later date the evaluation resets trades_today to 0 first; no SELL is
\* ever decided with trades_today at the cap.
C37_DailyCapGatesExits ==
    /\ [][ (pc = "loop" /\ pc' = "decided" /\ st.mode = "LONG"
              /\ st.trades_today >= cfg.max_trades_per_day)
           => IF st.trades_date_yyyy_mm_dd = now \div DayLen
              THEN /\ ctx'.decision = "BLOCKED"
                   /\ st' = st
                   /\ (ctx'.fetched /\ ~InsideCooldown)
                         => ctx'.decision_reason = "max_trades"
              ELSE /\ st'.trades_today = 0
                   /\ st'.trades_date_yyyy_mm_dd = now \div DayLen
         ]_vars
    /\ [](pc = "decided" /\ ctx.decision = "SELL"
            => st.trades_today < cfg.max_trades_per_day)

\* LONG after the last allowed trade of the day, outside the cooldown, the
\* price at or below the stop-loss level, and the evaluation BLOCKED by
\* the daily cap.
C37_Witness ==
    /\ pc = "decided"
    /\ st.mode = "LONG"
    /\ HasValue(st.entry_price)
    /\ st.trades_today >= cfg.max_trades_per_day
    /\ ~InsideCooldown
    /\ ctx.fetched
    /\ StopLossDue
    /\ ctx.decision = "BLOCKED"
    /\ ctx.decision_reason = "max_trades"

\* The state a BUY fill of this run leaves: a position just opened, early
\* enough for the clock to be followed past the end of its cooldown, the
\* end of its trade date and its maximum hold.
PositionOpened ==
    /\ cfg.max_hold_seconds > 0
    /\ pc = "sleep"
    /\ ctx.decision = "BUY"
    /\ ghost.result = "ok"
    /\ st.mode = "LONG"
    /\ HasValue(st.entry_time)
    /\ st.last_trade_time = st.entry_time
    /\ Value(st.entry_time) + cfg.max_hold_seconds <= MaxTime
    /\ Value(st.entry_time) + cfg.cooldown_seconds <= MaxTime
    /\ ((Value(st.entry_time) \div DayLen) + 1) * DayLen <= MaxTime

\* C38: with max_hold_seconds > 0, a position opened by a BUY fill is
\* eventually followed by a SELL decision, unless the run stops.
C38_PositionEventuallySold ==
    PositionOpened ~> \/ (pc = "decided" /\ ctx.decision = "SELL")
                      \/ pc = "stopped"

\* A SELL decided by the time-based exit on a position opened in this run.
C38_Witness ==
    /\ cfg.max_hold_seconds > 0
    /\ st.mode = "LONG"
    /\ HasValue(st.entry_time)
    /\ st.last_trade_time = st.entry_time
    /\ now >= Value(st.entry_time) + cfg.max_hold_seconds
    /\ pc = "decided"
    /\ ctx.decision = "SELL"
    /\ ctx.decision_reason = "time_exit"

\* The quote amount a simulated buy of position_cad at price debits: the
\* base amount is kept in 1/Scale of a unit, so up to one unit of quote is
\* lost to rounding.
SimulatedDebit(position_cad, price) ==
    (((position_cad * Scale) \div price) * price) \div Scale

\* C39: in a dry run started on a non-negative simulated quote balance, the
\* balance is never negative: a BUY is decided only with
\* available >= position_size + fee_buffer and position_size >= 1, sized
\* on the simulated balance, and its fill debits position_size (to the
\* rounding of the base amount).
C39_SimBalanceNeverNegative ==
    /\ [](st.sim_cad_balance >= 0)
    /\ [](pc = "decided" /\ ctx.decision = "BUY"
            => /\ ctx.sizing.available_cad = st.sim_cad_balance
               /\ ctx.sizing.available_cad
                     >= ctx.sizing.position_cad + ctx.sizing.fee_buffer_cad
               /\ ctx.sizing.fee_buffer_cad >= 1
               /\ ctx.sizing.position_cad >= 1)
    /\ [][ pc = "decided" /\ ctx.decision = "BUY"
            => LET debit == st.sim_cad_balance - st'.sim_cad_balance
               IN  /\ debit = SimulatedDebit(ctx.sizing.position_cad,
                                             ctx.current_price)
                   /\ debit <= ctx.sizing.position_cad
                   /\ ctx.sizing.position_cad - debit <= 1
                   /\ st'.sim_cad_balance >= ctx.sizing.fee_buffer_cad
         ]_vars

\* A simulated BUY fill has debited the balance it was sized on and left at
\* least the fee buffer.
C39_Witness ==
    /\ cfg.dry_run
    /\ pc = "sleep"
    /\ ctx.decision = "BUY"
    /\ ghost.result = "ok"
    /\ st.mode = "LONG"
    /\ st.sim_cad_balance < ctx.sizing.available_cad
    /\ st.sim_cad_balance >= ctx.sizing.fee_buffer_cad

\* C40: when evaluate() reaches the consecutive-failure check the
\* client's counter is 0, the ticker fetch of the same cycle having reset
\* it: evaluate() never returns BLOCKED for the failure ceiling, and an
\* evaluation whose fetch succeeded leaves the counter at 0, or at 1 when
\* the balance fetch that follows the check failed.
C40_FailureCheckSeesZero ==
    /\ [](cfg.max_consecutive_failures >= 1
            => ctx.decision_reason # "api_failures")
    /\ [][ pc = "loop" /\ pc' = "decided" /\ ctx'.fetched
            => failures' = IF ctx'.decision_reason = "balance_fetch_failed"
                           THEN 1 ELSE 0
         ]_vars

\* The first evaluation of a live run whose startup calls failed: the
\* counter was 1 on entry, the fetch succeeded, and the evaluation went
\* past the blocking conditions with the counter at 0.
C40_Witness ==
    /\ ~cfg.dry_run
    /\ now = 0
    /\ ghost.recon = "skipped"
    /\ pc = "decided"
    /\ ctx.fetched
    /\ ctx.decision \in {"BUY", "NOOP"}
    /\ failures = 0

=============================================================================
